---- MODULE Spec2Model ----
(***************************************************************************)
(* Model of the scripting engine of play-cards (engine/src): parser,       *)
(* bytecode translator with its peephole pass, and the stack VM.           *)
(*                                                                         *)
(* Value abstraction: an RtRef is a record [ty, val] with an integer       *)
(* payload, as in rt.rs (Bool -> 0/1, String -> address of the boxed       *)
(* String, Decimal -> the number).  Decimals are restricted to integers.   *)
(***************************************************************************)
EXTENDS Integers, Sequences, FiniteSets, TLC

(***************************************************************************)
(* rt.rs : RtRef constructors                                              *)
(***************************************************************************)
RtNull == [ty |-> "None", val |-> 0]

RtBool(b) == [ty |-> "Bool", val |-> IF b THEN 1 ELSE 0]

RtDecimal(n) == [ty |-> "Decimal", val |-> n]

RtString(addr) == [ty |-> "String", val |-> addr]

RtFunction(idx) == [ty |-> "Function", val |-> idx]

RtPlayer(idx) == [ty |-> "Player", val |-> idx]

(***************************************************************************)
(* lexer.rs : tokens.  k is the TokenKind, s the Lit/CharSeq payload,      *)
(* n the Number/Bool payload.                                              *)
(***************************************************************************)
Tok(k) == [k |-> k, s |-> "", n |-> 0]

TLit(name) == [k |-> "Lit", s |-> name, n |-> 0]

TStr(str) == [k |-> "CharSeq", s |-> str, n |-> 0]

TNum(num) == [k |-> "Number", s |-> "", n |-> num]

TBool(b) == [k |-> "Bool", s |-> "", n |-> IF b THEN 1 ELSE 0]

NoTok == Tok("None")

(***************************************************************************)
(* ast.rs : expression nodes and operator priorities                       *)
(***************************************************************************)
NVal(v) == [tag |-> "Val", val |-> v]

NVar(name) == [tag |-> "Var", name |-> name]

NUnaryOp(v) == [tag |-> "UnaryOp", val |-> v, op |-> "Not"]

NBinOp(l, r, op) == [tag |-> "BinOp", lhs |-> l, rhs |-> r, op |-> op]

NCallFunc(name, params) == [tag |-> "CallFunc", name |-> name, params |-> params]

BinOpKinds ==
    {"Add", "Sub", "Mul", "Div", "Mod", "And", "Or",
     "Eq", "Ne", "Gt", "Lt", "Ge", "Le"}

priority(op) ==
    CASE op \in {"Add", "Sub"} -> 1
      [] op \in {"Mul", "Div", "Mod"} -> 2
      [] OTHER -> 0

(***************************************************************************)
(* parser.rs : statements                                                  *)
(***************************************************************************)
SDefineVar(name, val, reassign) ==
    [tag |-> "DefineVar", name |-> name, val |-> val, reassign |-> reassign]

SDefineFn(name, args, stmts) ==
    [tag |-> "DefineFn", name |-> name, args |-> args, stmts |-> stmts]

SCallFunc(name, args) == [tag |-> "CallFunc", name |-> name, args |-> args]

SLoop(stmts, cond) == [tag |-> "Loop", stmts |-> stmts, condition |-> cond]

SConditional(seq, fallback) ==
    [tag |-> "Conditional", seq |-> seq, fallback |-> fallback]

SReturn(hasVal, val) == [tag |-> "Return", has_val |-> hasVal, val |-> val]

(***************************************************************************)
(* parser.rs : Parser.  A parse result is [st, idx, node]; st is "ok",     *)
(* "err" (an Err(ParseError)) or "panic" (unwrap/unreachable/todo/index).  *)
(***************************************************************************)
POk(idx, node) == [st |-> "ok", idx |-> idx, node |-> node]

PErr(idx) == [st |-> "err", idx |-> idx, node |-> NVal(RtNull)]

PPanic(idx) == [st |-> "panic", idx |-> idx, node |-> NVal(RtNull)]

look_ahead_by(toks, idx, by) ==
    IF idx + by + 1 <= Len(toks) THEN toks[idx + by + 1] ELSE NoTok

look_ahead(toks, idx) == look_ahead_by(toks, idx, 0)

\* Vec::remove(i): the sequence without its (0-based) i-th element
SeqRemove(s, i) == [j \in 1..(Len(s) - 1) |-> IF j <= i THEN s[j] ELSE s[j + 1]]

\* Vec::insert(i, e) with a 0-based position
SeqInsert(s, i, e) ==
    [j \in 1..(Len(s) + 1) |->
        IF j <= i THEN s[j] ELSE IF j = i + 1 THEN e ELSE s[j - 1]]

RECURSIVE HighestIdx(_, _, _, _)

\* the scan without the priority comparison: always the first operator
HighestIdxFirst(ops, i, hiIdx, hiPrio) == 0

\* the scan of try_parse_bin_op for the operator to combine next:
\* the first operator whose priority is strictly above all before it
\* and above 0; position 0 when every priority is 0
HighestIdx(ops, i, hiIdx, hiPrio) ==
    IF i > Len(ops) THEN hiIdx
    ELSE IF priority(ops[i]) > hiPrio
         THEN HighestIdx(ops, i + 1, i - 1, priority(ops[i]))
         ELSE HighestIdx(ops, i + 1, hiIdx, hiPrio)

\* one operand of the pair being combined: nodes.remove(h) while nodes is
\* not empty, finished_nodes.remove(0) otherwise; bad when that panics
TakeOperand(nodes, finished, h) ==
    IF nodes # <<>> THEN
        IF h >= Len(nodes)
        THEN [bad |-> TRUE, node |-> NVal(RtNull), nodes |-> nodes,
              finished |-> finished]
        ELSE [bad |-> FALSE, node |-> nodes[h + 1],
              nodes |-> SeqRemove(nodes, h), finished |-> finished]
    ELSE IF finished = <<>>
         THEN [bad |-> TRUE, node |-> NVal(RtNull), nodes |-> nodes,
               finished |-> finished]
         ELSE [bad |-> FALSE, node |-> finished[1], nodes |-> nodes,
               finished |-> Tail(finished)]

RECURSIVE Recombine(_, _, _)

RecombineRight(ops, h, l, r) ==
    IF r.bad THEN [st |-> "panic", node |-> NVal(RtNull)]
    ELSE Recombine(r.nodes, SeqRemove(ops, h),
                   Append(r.finished, NBinOp(l.node, r.node, ops[h + 1])))

RecombineLeft(ops, h, l) ==
    IF l.bad THEN [st |-> "panic", node |-> NVal(RtNull)]
    ELSE RecombineRight(ops, h, l, TakeOperand(l.nodes, l.finished, h))

RecombineAt(nodes, ops, finished, h) ==
    RecombineLeft(ops, h, TakeOperand(nodes, finished, h))

\* the while !ops.is_empty() loop of try_parse_bin_op; result is
\* [st, node] with st = "panic" when a remove is out of bounds
Recombine(nodes, ops, finished) ==
    IF ops = <<>> THEN
        IF finished = <<>> THEN [st |-> "panic", node |-> NVal(RtNull)]
        ELSE [st |-> "ok", node |-> finished[Len(finished)]]
    ELSE RecombineAt(nodes, ops, finished, HighestIdx(ops, 1, 0, 0))

\* the flattening of one operand of try_parse_bin_op into atoms
FlattenNodes(n) == IF n.tag = "BinOp" THEN <<n.lhs, n.rhs>> ELSE <<n>>

FlattenOps(n) == IF n.tag = "BinOp" THEN <<n.op>> ELSE <<>>

RECURSIVE try_parse_bin_op(_, _)

\* Token::Exclam => return Ok(UnaryOp { val: self.try_parse_bin_op()? })
WrapNot(r) == IF r.st = "ok" THEN POk(r.idx, NUnaryOp(r.node)) ELSE r

\* Token::OpenBrace: the inner expression, then the `)`
CloseParen(toks, r) ==
    IF r.st # "ok" THEN r
    ELSE IF look_ahead(toks, r.idx).k = "CloseBrace"
         THEN POk(r.idx + 1, r.node)
         ELSE PErr(r.idx)

FinishBinOp(idx, c) == IF c.st = "ok" THEN POk(idx, c.node) ELSE PPanic(idx)

\* flatten both operands around bin_op and recombine
CombineBinOp(lhs, bin_op, rr) ==
    IF rr.st # "ok" THEN rr
    ELSE FinishBinOp(rr.idx,
            Recombine(FlattenNodes(lhs) \o FlattenNodes(rr.node),
                      FlattenOps(lhs) \o <<bin_op>> \o FlattenOps(rr.node),
                      <<>>))

\* after the primary: return it unless a binary operator follows
AfterPrimary(toks, prim) ==
    IF prim.st # "ok" THEN prim
    ELSE IF look_ahead(toks, prim.idx).k \notin BinOpKinds THEN prim
    ELSE CombineBinOp(prim.node, look_ahead(toks, prim.idx).k,
                      try_parse_bin_op(toks, prim.idx + 1))

\* the literal and identifier primaries; the String literal at token
\* position p is boxed at address p
Atom(t, p) ==
    CASE t.k = "Lit" -> NVar(t.s)
      [] t.k = "CharSeq" -> NVal(RtString(p))
      [] t.k = "Number" -> NVal(RtDecimal(t.n))
      [] t.k = "Bool" -> NVal(RtBool(t.n = 1))

PrimaryAt(toks, idx, t) ==
    CASE t.k = "None" -> PPanic(idx + 1)
      [] t.k = "Exclam" -> WrapNot(try_parse_bin_op(toks, idx + 1))
      [] t.k = "OpenCurly" -> PPanic(idx + 1)
      [] t.k = "OpenBrace" ->
            AfterPrimary(toks,
                CloseParen(toks, try_parse_bin_op(toks, idx + 1)))
      [] t.k \in {"Lit", "CharSeq", "Number", "Bool"} ->
            AfterPrimary(toks, POk(idx + 1, Atom(t, idx + 1)))
      [] OTHER -> PErr(idx + 1)

try_parse_bin_op(toks, idx) == PrimaryAt(toks, idx, look_ahead(toks, idx))

RECURSIVE parse_func_params(_, _, _), parse_ast_node(_, _)

\* after one parameter: `,` continues, `)` ends, anything else is an error
AfterParam(toks, acc, r) ==
    IF r.st # "ok" THEN r
    ELSE IF look_ahead(toks, r.idx).k = "Comma"
         THEN parse_func_params(toks, r.idx + 1, Append(acc, r.node))
    ELSE IF look_ahead(toks, r.idx).k = "CloseBrace"
         THEN POk(r.idx + 1, Append(acc, r.node))
    ELSE PErr(r.idx)

\* the loop of Parser::parse_func_params, params collected so far in acc
parse_func_params(toks, idx, acc) ==
    IF look_ahead(toks, idx).k = "CloseBrace" THEN POk(idx + 1, acc)
    ELSE AfterParam(toks, acc, parse_ast_node(toks, idx))

CallFuncNode(name, r) ==
    IF r.st # "ok" THEN r ELSE POk(r.idx, NCallFunc(name, r.node))

parse_ast_node(toks, idx) ==
    IF /\ look_ahead_by(toks, idx, 0).k = "Lit"
       /\ look_ahead_by(toks, idx, 1).k = "OpenBrace"
    THEN CallFuncNode(look_ahead(toks, idx).s,
                      parse_func_params(toks, idx + 2, <<>>))
    ELSE try_parse_bin_op(toks, idx)

RECURSIVE parse_lits(_, _, _)
\* the parameter loop of Parser::parse_fn: parse_lit().unwrap() until `)`
parse_lits(toks, idx, acc) ==
    IF look_ahead(toks, idx).k = "CloseBrace" THEN POk(idx + 1, acc)
    ELSE IF look_ahead(toks, idx).k = "Lit"
         THEN parse_lits(toks, idx + 1, Append(acc, look_ahead(toks, idx).s))
         ELSE PPanic(idx + 1)

RECURSIVE parse_block(_, _, _), parse_stmt(_, _), parse_if(_, _, _)

BlockNext(toks, acc, r) ==
    IF r.st # "ok" THEN r ELSE parse_block(toks, r.idx, Append(acc, r.node))

\* while !self.try_eat(CloseCurly) { stmts.push(self.parse_stmt()?) }
parse_block(toks, idx, acc) ==
    IF look_ahead(toks, idx).k = "CloseCurly" THEN POk(idx + 1, acc)
    ELSE BlockNext(toks, acc, parse_stmt(toks, idx))

LoopStmt(cond, b) == IF b.st # "ok" THEN b ELSE POk(b.idx, SLoop(b.node, cond))

LoopBody(toks, c) ==
    IF c.st # "ok" THEN c
    ELSE IF look_ahead(toks, c.idx).k # "OpenCurly" THEN PErr(c.idx)
    ELSE LoopStmt(c.node, parse_block(toks, c.idx + 1, <<>>))

parse_loop(toks, idx) == LoopBody(toks, try_parse_bin_op(toks, idx))

IfFallback(conds, f) ==
    IF f.st # "ok" THEN f ELSE POk(f.idx, SConditional(conds, f.node))

\* after the body of one (condition, body) pair
IfElse(toks, conds, cond, b) ==
    IF b.st # "ok" THEN b
    ELSE IF look_ahead(toks, b.idx).k # "Else"
         THEN POk(b.idx, SConditional(Append(conds, <<cond, b.node>>), <<>>))
    ELSE IF look_ahead(toks, b.idx + 1).k = "If"
         THEN parse_if(toks, b.idx + 2, Append(conds, <<cond, b.node>>))
    ELSE IF look_ahead(toks, b.idx + 1).k # "OpenCurly" THEN PErr(b.idx + 1)
    ELSE IfFallback(Append(conds, <<cond, b.node>>),
                    parse_block(toks, b.idx + 2, <<>>))

IfBody(toks, conds, c) ==
    IF c.st # "ok" THEN c
    ELSE IF look_ahead(toks, c.idx).k # "OpenCurly" THEN PErr(c.idx)
    ELSE IfElse(toks, conds, c.node, parse_block(toks, c.idx + 1, <<>>))

\* the loop of Parser::parse_if, (condition, body) pairs so far in conds
parse_if(toks, idx, conds) == IfBody(toks, conds, try_parse_bin_op(toks, idx))

LetStmt(name, v) ==
    IF v.st # "ok" THEN v ELSE POk(v.idx, SDefineVar(name, v.node, FALSE))

parse_let(toks, idx) ==
    IF look_ahead(toks, idx).k # "Lit" THEN PPanic(idx + 1)
    ELSE IF look_ahead(toks, idx + 1).k # "Assign" THEN PErr(idx + 1)
    ELSE LetStmt(look_ahead(toks, idx).s, parse_ast_node(toks, idx + 2))

FnStmt(name, args, b) ==
    IF b.st # "ok" THEN b ELSE POk(b.idx, SDefineFn(name, args, b.node))

FnBody(toks, name, a) ==
    IF a.st # "ok" THEN a
    ELSE IF look_ahead(toks, a.idx).k # "OpenCurly" THEN PErr(a.idx)
    ELSE FnStmt(name, a.node, parse_block(toks, a.idx + 1, <<>>))

parse_fn(toks, idx) ==
    IF look_ahead(toks, idx).k # "Lit" THEN PPanic(idx + 1)
    ELSE IF look_ahead(toks, idx + 1).k # "OpenBrace" THEN PErr(idx + 1)
    ELSE FnBody(toks, look_ahead(toks, idx).s, parse_lits(toks, idx + 2, <<>>))

\* Ok(val) => Return { val: Some(val) }; Err(_) => roll idx back, val: None
ReturnStmt(idx, v) ==
    CASE v.st = "ok" -> POk(v.idx, SReturn(TRUE, v.node))
      [] v.st = "err" -> POk(idx, SReturn(FALSE, NVal(RtNull)))
      [] OTHER -> v

parse_return(toks, idx) == ReturnStmt(idx, parse_ast_node(toks, idx))

CallStmt(name, r) ==
    IF r.st # "ok" THEN r ELSE POk(r.idx, SCallFunc(name, r.node))

ReassignStmt(name, r) ==
    IF r.st # "ok" THEN r ELSE POk(r.idx, SDefineVar(name, r.node, TRUE))

StmtAt(toks, idx, t) ==
    CASE t.k = "None" -> PPanic(idx + 1)
      [] t.k = "OpenCurly" -> PPanic(idx + 1)
      [] t.k = "While" -> parse_loop(toks, idx + 1)
      [] t.k = "If" -> parse_if(toks, idx + 1, <<>>)
      [] t.k = "Return" -> parse_return(toks, idx + 1)
      [] t.k = "Fn" -> parse_fn(toks, idx + 1)
      [] t.k = "Let" -> parse_let(toks, idx + 1)
      [] t.k = "Lit" ->
            IF look_ahead(toks, idx + 1).k = "OpenBrace"
            THEN CallStmt(t.s, parse_func_params(toks, idx + 2, <<>>))
            ELSE IF look_ahead(toks, idx + 1).k = "Assign"
            THEN ReassignStmt(t.s, try_parse_bin_op(toks, idx + 2))
            ELSE PErr(idx + 2)
      [] OTHER -> PErr(idx + 1)

parse_stmt(toks, idx) == StmtAt(toks, idx, look_ahead(toks, idx))

RECURSIVE parse_from(_, _, _)

ParseNext(toks, acc, r) ==
    IF r.st # "ok" THEN r ELSE parse_from(toks, r.idx, Append(acc, r.node))

\* the loop of parse(): statements until the token index reaches the end
parse_from(toks, idx, acc) ==
    IF idx >= Len(toks) THEN POk(idx, acc)
    ELSE ParseNext(toks, acc, parse_stmt(toks, idx))

parse(toks) == parse_from(toks, 0, <<>>)

(***************************************************************************)
(* bytecode.rs : ByteCode.  One record shape for every instruction; the    *)
(* fields an instruction does not have keep their defaults.  si records    *)
(* the translator's stack_idx at the moment the instruction was emitted.   *)
(***************************************************************************)
Ins(op) ==
    [op |-> op, val |-> RtNull, offset |-> 0, src_idx |-> 0, dst_idx |-> 0,
     fn_idx |-> 0, push_val |-> FALSE, arg_indices |-> <<>>,
     arg1_idx |-> 0, arg2_idx |-> 0, relative_off |-> 0, arg_idx |-> 0,
     expected |-> "", has_val |-> FALSE, si |-> 0]

\* a Push that drops its immediate
PushNull(v) == [Ins("Push") EXCEPT !.val = RtNull]

Push(v) == [Ins("Push") EXCEPT !.val = v]

Pop(off) == [Ins("Pop") EXCEPT !.offset = off]

\* a Mov with its two slots exchanged
MovSwapped(src, dst) ==
    [Ins("Mov") EXCEPT !.src_idx = dst, !.dst_idx = src]

Mov(src, dst) == [Ins("Mov") EXCEPT !.src_idx = src, !.dst_idx = dst]

Call(f, pv, args) ==
    [Ins("Call") EXCEPT !.fn_idx = f, !.push_val = pv, !.arg_indices = args]

Arith(op, a1, a2) == [Ins(op) EXCEPT !.arg1_idx = a1, !.arg2_idx = a2]

Jump(off) == [Ins("Jump") EXCEPT !.relative_off = off]

JumpCond(off, arg) ==
    [Ins("JumpCond") EXCEPT !.relative_off = off, !.arg_idx = arg]

Compare(a1, a2, exp) ==
    [Ins("Compare") EXCEPT !.arg1_idx = a1, !.arg2_idx = a2, !.expected = exp]

Return(hv) == [Ins("Return") EXCEPT !.has_val = hv]

CallLocal(off) == [Ins("CallLocal") EXCEPT !.relative_off = off]

(***************************************************************************)
(* The host function table handed to translate and to the VM               *)
(* (fn_idx is the 0-based position).  ret is what the call returns.        *)
(***************************************************************************)
PlayerCount == 2

\* println, two functions of the host application, two host functions
\* that declare one parameter, one of them variadic, and three more functions
\* of the host application; params is params.len()
fns ==
    << [name |-> "println", params |-> 0, var_len |-> TRUE],
       [name |-> "playerCount", params |-> 0, var_len |-> FALSE],
       [name |-> "playerName", params |-> 0, var_len |-> TRUE],
       [name |-> "hostFixed", params |-> 1, var_len |-> FALSE],
       [name |-> "hostVar", params |-> 1, var_len |-> TRUE],
       [name |-> "nextPlayer", params |-> 0, var_len |-> FALSE],
       [name |-> "storeMeta", params |-> 0, var_len |-> TRUE],
       [name |-> "loadMeta", params |-> 0, var_len |-> TRUE] >>

(***************************************************************************)
(* bytecode.rs : Translator                                                *)
(***************************************************************************)
NewTranslator(local_fns) ==
    [code |-> <<>>, stack_idx |-> 0, vars |-> <<>>, internal_fns |-> <<>>,
     call_resolution |-> <<>>, local_fns |-> local_fns, st |-> "ok"]

\* a panic!/unwrap/todo!/overflow in the translator; st names which one
TPanic(T, why) == [T EXCEPT !.st = why]

\* self.code.push(ins)
Emit(T, ins) ==
    [T EXCEPT !.code = Append(@, [ins EXCEPT !.si = T.stack_idx])]

RECURSIVE EmitN(_, _, _)
\* for _ in 0..n { self.code.push(ins) }
EmitN(T, ins, n) == IF n <= 0 THEN T ELSE EmitN(Emit(T, ins), ins, n - 1)

\* self.code.insert(pos, ins)
InsertAt(T, pos, ins) ==
    [T EXCEPT !.code = SeqInsert(@, pos, [ins EXCEPT !.si = T.stack_idx])]

RECURSIVE InsertN(_, _, _, _)
InsertN(T, pos, ins, n) ==
    IF n <= 0 THEN T ELSE InsertN(InsertAt(T, pos, ins), pos, ins, n - 1)

\* self.stack_idx -= n on a usize: going below zero panics
SubStack(T, n) ==
    IF T.stack_idx < n THEN TPanic(T, "overflow")
    ELSE [T EXCEPT !.stack_idx = @ - n]

\* vars is a HashMap<String, Vec<usize>>: a function on the names present
HasVar(T, name) == name \in DOMAIN T.vars

VarPush(T, name, idx) ==
    IF HasVar(T, name)
    THEN [T EXCEPT !.vars[name] = Append(@, idx)]
    ELSE [T EXCEPT !.vars = [n \in (DOMAIN @) \cup {name} |->
                                IF n = name THEN <<idx>> ELSE @[n]]]

\* position (1-based) of the internal function called name, 0 if absent
InternalFnPos(T, name) ==
    IF \E i \in 1..Len(T.internal_fns) : T.internal_fns[i].name = name
    THEN CHOOSE i \in 1..Len(T.internal_fns) : T.internal_fns[i].name = name
    ELSE 0

\* resolve_fn_idx: position in the host table, -1 where the code panics
resolve_fn_idx(name) ==
    IF \E i \in 1..Len(fns) : fns[i].name = name
    THEN (CHOOSE i \in 1..Len(fns) :
             /\ fns[i].name = name
             /\ \A j \in 1..(i - 1) : fns[j].name # name) - 1
    ELSE -1

NodeRes(T, idx, pops) == [t |-> T, idx |-> idx, pops |-> pops]

CompareOf(op, idx1, idx2) ==
    CASE op = "Eq" -> Compare(idx1, idx2, "Equal")
      [] op = "Ne" -> Compare(idx1, idx2, "NotEqual")
      [] op = "Gt" -> Compare(idx1, idx2, "Greater")
      [] op = "Lt" -> Compare(idx1, idx2, "Less")
      [] op = "Ge" -> Compare(idx2, idx1, "Less")
      [] op = "Le" -> Compare(idx2, idx1, "Greater")

BinOpIns(op, idx1, idx2) ==
    IF op \in {"Add", "Sub", "Mul", "Div", "Mod", "And", "Or"}
    THEN Arith(op, idx1, idx2)
    ELSE CompareOf(op, idx1, idx2)

RECURSIVE translate_node(_, _, _), translate_args(_, _, _, _, _)

ArgsNext(params, i, indices, r) ==
    translate_args(r.t, params, i + 1, Append(indices, r.idx), r.pops)

\* the arguments translated last to first
translate_args_rev(T, params, i, indices, pops) ==
    IF i > Len(params) THEN [t |-> T, indices |-> indices, pops |-> pops]
    ELSE ArgsNext(params, i, indices,
                  translate_node(T, params[Len(params) + 1 - i], pops))

\* for param in params { indices.push(self.translate_node(param, &mut pops)) }
translate_args(T, params, i, indices, pops) ==
    IF i > Len(params) THEN [t |-> T, indices |-> indices, pops |-> pops]
    ELSE ArgsNext(params, i, indices, translate_node(T, params[i], pops))

\* the tail of both CallFunc arms: the value the call leaves is one new slot
CallValue(pops, T3) == NodeRes(T3, T3.stack_idx - 1, pops + 1)

\* a call of a script function: CallLocal, then the argument cleanup
CallLocalEmit(offset, pops, a) ==
    IF a.t.st # "ok" THEN NodeRes(a.t, 0, pops)
    ELSE CallValue(pops,
            SubStack([EmitN(Emit(a.t, CallLocal(0)), Pop(offset), a.pops)
                         EXCEPT !.stack_idx = @ + 1],
                     a.pops))

\* a call of a host function: Call { push_val: true }, then the cleanup
CallHostEmit(fn_idx, pops, a) ==
    IF a.t.st # "ok" THEN NodeRes(a.t, 0, pops)
    ELSE CallValue(pops,
            SubStack([EmitN(Emit(a.t, Call(fn_idx, TRUE, a.indices)),
                            Pop(1), a.pops)
                         EXCEPT !.stack_idx = @ + 1],
                     a.pops))

BinOpValue(pops, T3) ==
    IF T3.st # "ok" THEN NodeRes(T3, 0, pops)
    ELSE NodeRes([T3 EXCEPT !.stack_idx = @ + 1], T3.stack_idx, pops + 1)

\* operand temporaries removed from the top of the stack
BinOpEmitTop(op, pops, idx1, r) ==
    IF r.t.st # "ok" THEN NodeRes(r.t, 0, pops)
    ELSE BinOpValue(pops,
            SubStack(EmitN(Emit(r.t, BinOpIns(op, idx1, r.idx)), Pop(0),
                           r.pops),
                     r.pops))

\* the operator instruction, Pop { offset: 1 } per operand temporary, and
\* only then stack_idx -= local_pops; stack_idx += 1
BinOpEmit(op, pops, idx1, r) ==
    IF r.t.st # "ok" THEN NodeRes(r.t, 0, pops)
    ELSE BinOpValue(pops,
            SubStack(EmitN(Emit(r.t, BinOpIns(op, idx1, r.idx)), Pop(1),
                           r.pops),
                     r.pops))

\* both operands share one local_pops counter
BinOpRhs(node, pops, l) ==
    BinOpEmit(node.op, pops, l.idx, translate_node(l.t, node.rhs, l.pops))

\* AstNode::Var: the innermost binding, else a script function as a value
VarNode(T, name, pops) ==
    IF HasVar(T, name) THEN
        IF T.vars[name] = <<>>
        THEN NodeRes(TPanic(T, "unwrap"), 0, pops)
        ELSE NodeRes(T, T.vars[name][Len(T.vars[name])], pops)
    ELSE IF InternalFnPos(T, name) > 0 THEN
        NodeRes([Emit(T, Push(RtFunction(
                     T.internal_fns[InternalFnPos(T, name)].func_idx)))
                    EXCEPT !.stack_idx = @ + 1],
                T.stack_idx, pops + 1)
    ELSE NodeRes(TPanic(T, "unknown_var"), 0, pops)

translate_node(T, node, pops) ==
    IF T.st # "ok" THEN NodeRes(T, 0, pops)
    ELSE
    CASE node.tag = "CallFunc" ->
            IF node.name \in DOMAIN T.local_fns
            THEN CallLocalEmit(IF T.local_fns[node.name] THEN 1 ELSE 0, pops,
                               translate_args(T, node.params, 1, <<>>, 0))
            ELSE IF resolve_fn_idx(node.name) < 0
                 THEN NodeRes(TPanic(T, "unknown_fn"), 0, pops)
            ELSE CallHostEmit(resolve_fn_idx(node.name), pops,
                              translate_args(T, node.params, 1, <<>>, 0))
      [] node.tag = "BinOp" ->
            BinOpRhs(node, pops, translate_node(T, node.lhs, 0))
      [] node.tag = "Val" ->
            NodeRes([Emit(T, Push(node.val)) EXCEPT !.stack_idx = @ + 1],
                    T.stack_idx, pops + 1)
      [] node.tag = "Var" -> VarNode(T, node.name, pops)
      [] node.tag = "UnaryOp" -> NodeRes(TPanic(T, "todo"), 0, pops)

\* usize value of ((j as isize) + relative_off) as usize: a negative sum
\* wraps to a value above every instruction index
HugeIdx == 1000000

JumpOther(j, rel) == IF j + rel < 0 THEN HugeIdx ELSE j + rel

Min(a, b) == IF a <= b THEN a ELSE b

Max(a, b) == IF a >= b THEN a ELSE b

\* how many of the two 0-based indices i - 1 and i lie in lo..hi-1
Containing(lo, hi, i) ==
    (IF lo <= i /\ i < hi THEN 1 ELSE 0)
    + (IF lo <= i - 1 /\ i - 1 < hi THEN 1 ELSE 0)

\* a fixup that subtracts from every offset, negative ones included
ShortenForward(ins, containing) ==
    IF containing = 0 THEN ins
    ELSE [ins EXCEPT !.relative_off = @ - containing]

Shorten(ins, containing) ==
    IF containing = 0 THEN ins
    ELSE IF ins.relative_off < 0
         THEN [ins EXCEPT !.relative_off = @ + containing]
         ELSE [ins EXCEPT !.relative_off = @ - containing]

\* the jump fixup of optimize for one instruction at 0-based index j when
\* the pair at 0-based (i - 1, i) is about to be removed
FixJump(ins, j, i) ==
    IF ins.op \notin {"Jump", "JumpCond"} THEN ins
    ELSE Shorten(ins,
            Containing(Min(j, JumpOther(j, ins.relative_off)),
                       Max(j, JumpOther(j, ins.relative_off)), i))

\* a scan that looks at the first two instructions only
PushPopHead(code) ==
    {i \in 1..(Len(code) - 1) :
        /\ i = 1
        /\ code[i].op = "Push"
        /\ code[i + 1].op = "Pop"
        /\ code[i + 1].offset = 0}

\* 0-based indices i with code[i - 1] a Push and code[i] a Pop { offset: 0 }
PushPopAt(code) ==
    {i \in 1..(Len(code) - 1) :
        /\ code[i].op = "Push"
        /\ code[i + 1].op = "Pop"
        /\ code[i + 1].offset = 0}

\* the first such index, 0 when there is none
FirstPushPop(code) ==
    IF PushPopAt(code) = {} THEN 0
    ELSE CHOOSE m \in PushPopAt(code) : \A n \in PushPopAt(code) : m <= n

\* one round of the while !optimized loop: fix the jumps, remove the pair
RemovePair(code, i) ==
    SeqRemove(SeqRemove([p \in 1..Len(code) |-> FixJump(code[p], p - 1, i)],
                        i),
              i - 1)

RECURSIVE optimize(_)

OptimizeAt(code, i) == IF i = 0 THEN code ELSE optimize(RemovePair(code, i))

optimize(code) == OptimizeAt(code, FirstPushPop(code))

RECURSIVE translate_internal(_, _), TrStmts(_, _, _, _), TrCondSeq(_, _, _, _),
          translate_unit(_, _)

\* a scope exit that leaves the bindings of the scope in place
PopScopeKeep(T, scope, i) == T

RECURSIVE PopScope(_, _, _)
\* for var in curr_scope.vars { self.vars.get_mut(&var).unwrap().pop(); }
PopScope(T, scope, i) ==
    IF i > Len(scope) THEN T
    ELSE IF T.vars[scope[i]] = <<>> THEN PopScope(T, scope, i + 1)
    ELSE PopScope([T EXCEPT !.vars[scope[i]] = SubSeq(@, 1, Len(@) - 1)],
                  scope, i + 1)

RECURSIVE EmitJumps(_, _, _)
\* for idx in jump_indices.iter().rev() { push Jump { end - idx } }
EmitJumps(T, jump_indices, k) ==
    IF k < 1 THEN T
    ELSE EmitJumps(Emit(T, Jump(Len(T.code) - jump_indices[k])),
                   jump_indices, k - 1)

\* Stmt::DefineVar once the value is translated
DefineVarEmit(stmt, scope, r) ==
    IF r.t.st # "ok" THEN [t |-> r.t, scope |-> scope]
    ELSE IF stmt.reassign THEN
        IF ~HasVar(r.t, stmt.name)
        THEN [t |-> TPanic(r.t, "unwrap"), scope |-> scope]
        ELSE IF r.t.vars[stmt.name] = <<>>
             THEN [t |-> TPanic(r.t, "unwrap"), scope |-> scope]
        ELSE [t |-> SubStack(
                       EmitN(Emit(r.t,
                                  Mov(r.idx,
                                      r.t.vars[stmt.name][
                                          Len(r.t.vars[stmt.name])])),
                             Pop(0), r.pops),
                       r.pops),
              scope |-> scope]
    ELSE [t |-> VarPush(r.t, stmt.name, r.idx),
          scope |-> Append(scope, stmt.name)]

TrDefineVar(T, stmt, scope) ==
    DefineVarEmit(stmt, scope, translate_node(T, stmt.val, 0))

\* a test that rejects every count other than the declared one
ArgCountDiffers(f, nargs) == f.params # nargs

\* the argument count test of Stmt::CallFunc
ArgCountMismatch(f, nargs) ==
    /\ (~f.var_len \/ f.params > nargs)
    /\ f.params # nargs

CallFuncEmit(fn_idx, a) ==
    IF a.t.st # "ok" THEN a.t
    ELSE SubStack(EmitN(Emit(a.t, Call(fn_idx, FALSE, a.indices)), Pop(0),
                        a.pops),
                  a.pops)

TrCallFunc(T, stmt) ==
    IF resolve_fn_idx(stmt.name) < 0 THEN TPanic(T, "unknown_fn")
    ELSE IF ArgCountMismatch(fns[resolve_fn_idx(stmt.name) + 1],
                             Len(stmt.args))
         THEN TPanic(T, "arg_count")
    ELSE CallFuncEmit(resolve_fn_idx(stmt.name),
                      translate_args(T, stmt.args, 1, <<>>, 0))

\* the backward JumpCond with relative_off = -full_body_size: back to the
\* entry Jump instead of the instruction after it
LoopBackToEntry(loop_start_len, c, T2) ==
    SubStack(EmitN(Emit(T2, JumpCond(-(Len(T2.code) - loop_start_len),
                                     c.idx)),
                   Pop(0), c.pops),
             1)

\* the backward JumpCond, the exit Pops, and stack_idx -= 1
LoopBack(loop_start_len, c, T2) ==
    SubStack(EmitN(Emit(T2, JumpCond(-((Len(T2.code) - loop_start_len) - 1),
                                     c.idx)),
                   Pop(0), c.pops),
             1)

\* the in-loop Pops and the entry Jump, inserted at the start of the body
LoopEmit(loop_start_len, body_size, c) ==
    IF c.t.st # "ok" THEN c.t
    ELSE LoopBack(loop_start_len, c,
            InsertAt(InsertN(c.t, loop_start_len, Pop(0), c.pops),
                     loop_start_len, Jump(body_size + c.pops + 1)))

LoopCond(loop_start_len, stmt, Tb) ==
    LoopEmit(loop_start_len, Len(Tb.code) - loop_start_len,
             translate_node(Tb, stmt.condition, 0))

TrLoop(T, stmt) ==
    LoopCond(Len(T.code), stmt, translate_internal(T, stmt.stmts))

\* the body's trailing Pop { offset: 1 }s; the next pair
CondNext(seq, i, jump_indices, pops, T3) ==
    TrCondSeq(EmitN(T3, Pop(1), pops), seq, i + 1,
              Append(jump_indices, Len(T3.code)))

\* self.code.insert(cond_idx, JumpCond { relative_off: code_size, .. })
CondJump(seq, i, jump_indices, c, cond_idx, T2) ==
    IF T2.st # "ok" THEN [t |-> T2, jump_indices |-> jump_indices]
    ELSE CondNext(seq, i, jump_indices, c.pops,
            InsertAt(T2, cond_idx,
                     JumpCond(Len(T2.code) - cond_idx, c.idx)))

\* the condition's Pop { offset: 1 }s, then the body
CondBody(seq, i, jump_indices, c) ==
    IF c.t.st # "ok" THEN [t |-> c.t, jump_indices |-> jump_indices]
    ELSE CondJump(seq, i, jump_indices, c, Len(c.t.code),
            translate_internal(SubStack(EmitN(c.t, Pop(1), c.pops), c.pops),
                               seq[i][2]))

\* the for (cond, stmts) in seq.iter() loop of Stmt::Conditional
TrCondSeq(T, seq, i, jump_indices) ==
    IF T.st # "ok" \/ i > Len(seq) THEN [t |-> T, jump_indices |-> jump_indices]
    ELSE CondBody(seq, i, jump_indices, translate_node(T, seq[i][1], 0))

CondEnd(jump_indices, T1) ==
    IF T1.st # "ok" THEN T1
    ELSE EmitJumps(T1, jump_indices, Len(jump_indices))

CondFallback(stmt, s) ==
    CondEnd(s.jump_indices, translate_internal(s.t, stmt.fallback))

TrConditional(T, stmt) == CondFallback(stmt, TrCondSeq(T, stmt.seq, 1, <<>>))

\* the InternalFunction record of a translated body
InternalFunction(T, stmt, u) ==
    [name |-> stmt.name, code |-> u.main, pre |-> u.pre,
     params |-> stmt.args, call_resolution |-> u.call_resolution,
     func_idx |-> Len(T.internal_fns)]

\* self.internal_fns.insert(name, ..) after the nested-function check
DefineFnAdd(T, stmt, u) ==
    IF u.st # "ok" THEN TPanic(T, u.st)
    ELSE IF u.fns # <<>> THEN TPanic(T, "nested_fn")
    ELSE IF InternalFnPos(T, stmt.name) > 0
         THEN [T EXCEPT !.internal_fns[InternalFnPos(T, stmt.name)] =
                            InternalFunction(T, stmt, u)]
         ELSE [T EXCEPT !.internal_fns =
                            Append(@, InternalFunction(T, stmt, u))]

TrDefineFn(T, stmt) ==
    DefineFnAdd(T, stmt, translate_unit(stmt.stmts, T.local_fns))

ReturnEmit(stmt, r) ==
    IF r.t.st # "ok" THEN r.t ELSE Emit(r.t, Return(stmt.has_val))

TrReturn(T, stmt) ==
    ReturnEmit(stmt, IF stmt.has_val THEN translate_node(T, stmt.val, 0)
                     ELSE NodeRes(T, 0, 0))

StmtsNext(stmts, i, r) == TrStmts(r.t, stmts, i + 1, r.scope)

\* the for stmt in stmts loop of translate_internal; a Return breaks it
TrStmts(T, stmts, i, scope) ==
    IF T.st # "ok" \/ i > Len(stmts) THEN [t |-> T, scope |-> scope]
    ELSE
        CASE stmts[i].tag = "DefineVar" ->
                StmtsNext(stmts, i, TrDefineVar(T, stmts[i], scope))
          [] stmts[i].tag = "CallFunc" ->
                TrStmts(TrCallFunc(T, stmts[i]), stmts, i + 1, scope)
          [] stmts[i].tag = "Loop" ->
                TrStmts(TrLoop(T, stmts[i]), stmts, i + 1, scope)
          [] stmts[i].tag = "Conditional" ->
                TrStmts(TrConditional(T, stmts[i]), stmts, i + 1, scope)
          [] stmts[i].tag = "DefineFn" ->
                TrStmts(TrDefineFn(T, stmts[i]), stmts, i + 1, scope)
          [] stmts[i].tag = "Return" ->
                [t |-> TrReturn(T, stmts[i]), scope |-> scope]

\* let stack_delta = self.stack_idx - initial_stack_idx; one Pop { 0 } each
ScopePops(initial_stack_idx, T1) ==
    IF T1.stack_idx - initial_stack_idx < 0 THEN TPanic(T1, "overflow")
    ELSE [EmitN(T1, Pop(0), T1.stack_idx - initial_stack_idx)
             EXCEPT !.stack_idx = initial_stack_idx]

ScopeExit(initial_stack_idx, r) ==
    IF r.t.st # "ok" THEN r.t
    ELSE ScopePops(initial_stack_idx, PopScope(r.t, r.scope, 1))

translate_internal(T, stmts) ==
    IF T.st # "ok" THEN T
    ELSE ScopeExit(T.stack_idx, TrStmts(T, stmts, 1, <<>>))

\* what translate_internal_inner returns: the optimized code (main), the
\* code before optimize (pre), the script functions and the call sites
UnitOf(T) ==
    [main |-> IF T.st = "ok" THEN optimize(T.code) ELSE <<>>,
     pre |-> T.code, fns |-> T.internal_fns,
     call_resolution |-> T.call_resolution, st |-> T.st]

translate_unit(stmts, local_fns) ==
    UnitOf(translate_internal(NewTranslator(local_fns), stmts))

\* has_val of one statement of a function body, as discover_fn_defs reads it
StmtHasVal(stmt) ==
    IF stmt.tag = "Return" /\ stmt.has_val THEN "true" ELSE "false"

RECURSIVE ReturnKinds(_, _, _)
\* the inner loop of discover_fn_defs over the statements of one body:
\* [st, has_val], has_val in {"none", "true", "false"}
ReturnKinds(body, i, has_val) ==
    IF i > Len(body) THEN [st |-> "ok", has_val |-> has_val]
    ELSE IF has_val # "none" /\ has_val # StmtHasVal(body[i])
         THEN [st |-> "inconsistent_return", has_val |-> has_val]
         ELSE ReturnKinds(body, i + 1, StmtHasVal(body[i]))

RECURSIVE discover_from(_, _, _)

DiscoverAdd(stmts, i, defs, k) ==
    IF k.st # "ok" THEN [st |-> k.st, defs |-> defs]
    ELSE discover_from(stmts, i + 1,
            [n \in (DOMAIN defs) \cup {stmts[i].name} |->
                IF n = stmts[i].name THEN k.has_val = "true" ELSE defs[n]])

discover_from(stmts, i, defs) ==
    IF i > Len(stmts) THEN [st |-> "ok", defs |-> defs]
    ELSE IF stmts[i].tag # "DefineFn" THEN discover_from(stmts, i + 1, defs)
    ELSE DiscoverAdd(stmts, i, defs, ReturnKinds(stmts[i].stmts, 1, "none"))

discover_fn_defs(stmts) == discover_from(stmts, 1, <<>>)

RECURSIVE AppendFns(_, _, _, _)
\* for fun in res.0.fns { fn_stack.push(..offset: bc.len()..); bc.extend(code) }
AppendFns(bc, ifns, i, fn_stack) ==
    IF i > Len(ifns) THEN [bc |-> bc, fn_stack |-> fn_stack]
    ELSE AppendFns(bc \o ifns[i].code, ifns, i + 1,
                   Append(fn_stack,
                          [name |-> ifns[i].name, args |-> Len(ifns[i].params),
                           offset |-> Len(bc),
                           call_res |-> ifns[i].call_resolution]))

\* fn_lookup.get(&res.name): 1-based position in fn_stack, 0 if unknown
FnLookup(fn_stack, name) ==
    IF \E i \in 1..Len(fn_stack) : fn_stack[i].name = name
    THEN CHOOSE i \in 1..Len(fn_stack) : fn_stack[i].name = name
    ELSE 0

RECURSIVE Resolve(_, _, _, _, _)

\* one call site: the lookup, the argument count test, the patched CallLocal
ResolveOne(l, call_res, k, base, fn_stack, res, pos) ==
    IF pos = 0 THEN [l EXCEPT !.st = "unknown_fn"]
    ELSE IF fn_stack[pos].args # res.args THEN [l EXCEPT !.st = "arg_count"]
    ELSE IF fn_stack[pos].offset < res.location_idx
         THEN [l EXCEPT !.st = "overflow"]
    ELSE Resolve([l EXCEPT !.bc[base + res.location_idx + 1] =
                     CallLocal(fn_stack[pos].offset - res.location_idx)],
                 call_res, k + 1, base, fn_stack)

\* one for res in <call sites> loop of translate; base is the offset added
\* to the location of the patched instruction
Resolve(l, call_res, k, base, fn_stack) ==
    IF l.st # "ok" \/ k > Len(call_res) THEN l
    ELSE ResolveOne(l, call_res, k, base, fn_stack, call_res[k],
                    FnLookup(fn_stack, call_res[k].name))

RECURSIVE ResolveFns(_, _, _)
\* for i in (0..fn_stack.len()).rev() { for res in &fn_stack[i].call_res .. }
ResolveFns(l, fn_stack, i) ==
    IF i < 1 THEN l
    ELSE ResolveFns(Resolve(l, fn_stack[i].call_res, 1, fn_stack[i].offset,
                            fn_stack),
                    fn_stack, i - 1)

TranslateFail(why) == [st |-> why, bc |-> <<>>, pre |-> <<>>]

\* the script functions with their code as it was before optimize
PreFns(ifns) == [i \in 1..Len(ifns) |-> [ifns[i] EXCEPT !.code = ifns[i].pre]]

TranslateDone(u, l) ==
    IF l.st # "ok" THEN TranslateFail(l.st)
    ELSE [st |-> "ok", bc |-> l.bc,
          pre |-> AppendFns(u.pre, PreFns(u.fns), 1, <<>>).bc]

TranslateResolve(u, a) ==
    TranslateDone(u,
        Resolve(ResolveFns([st |-> "ok", bc |-> a.bc], a.fn_stack,
                           Len(a.fn_stack)),
                u.call_resolution, 1, 0, a.fn_stack))

TranslateLink(u) ==
    IF u.st # "ok" THEN TranslateFail(u.st)
    ELSE TranslateResolve(u, AppendFns(u.main, u.fns, 1, <<>>))

TranslateUnit(stmts, d) ==
    IF d.st # "ok" THEN TranslateFail(d.st)
    ELSE TranslateLink(translate_unit(stmts, d.defs))

\* translate(): [st, bc, pre]; st is "ok" or the panic that ended it; pre
\* is the same tape built from the units' code before optimize ran on them
translate(stmts) == TranslateUnit(stmts, discover_fn_defs(stmts))

(***************************************************************************)
(* State                                                                   *)
(***************************************************************************)
VARIABLES
    tokens,      \* the token stream handed to parse
    parsed,      \* result of parse: [st, idx, node]
    out,         \* result of translate: [st, bc, pre]
    pc,          \* pipeline position: parse, translate, run_pre, run, end
    ip,          \* Vm::ip
    stack,       \* Vm::stack
    heap,        \* the boxed Strings: address -> [s, freed]
    trace,       \* host calls made so far, with their argument values
    status,      \* running, done (run returned), panic, noarm, ub, nonint, cap
    steps,       \* instructions dispatched in the current run
    pre_trace,   \* trace of the run of the tape as it was before optimize
    pre_status,  \* status of that run
    text,        \* the source text handed to lex, one character per element
    lexer,       \* lex: [idx (LexingIter::idx), some (next_chr is Some),
                 \*       toks (tokens), st (idle, run, ok, err)]
    ctx,         \* GameCtx: [curr_player, meta (the players' meta maps, as
                 \*       the set of their entries [player, name, val])]
    once         \* a ConcurrentOnceCell and the threads that call it:
                 \*       [ptr, boxes, installs, first, th]

vars ==
    <<tokens, parsed, out, pc, ip, stack, heap, trace, status, steps,
      pre_trace, pre_status, text, lexer, ctx, once>>

(***************************************************************************)
(* conc_once_cell.rs : ConcurrentOnceCell, called by CellThreads threads   *)
(* that each make up to CellCalls calls.  A step is one access to the      *)
(* AtomicPtr together with the thread-local code around it.                *)
(***************************************************************************)
CellThreads == 2

CellCalls == 2

\* null_mut()
NullPtr == 0

\* the state of a thread between two calls, after n calls: res and out are
\* the result of the last call that returned
Between(op, val, res, ret, n) ==
    [pc |-> "idle", op |-> op, val |-> val, box |-> NullPtr, res |-> res,
     out |-> ret, calls |-> n]

\* ConcurrentOnceCell::new(); installs counts the compare_exchange calls that
\* stored a pointer and first is the value the first of them installed
NewCell ==
    [ptr |-> NullPtr, boxes |-> {}, installs |-> 0, first |-> <<>>,
     th |-> [t \in 1..CellThreads |->
                Between("none", <<>>, "none", <<>>, 0)]]

\* the address of the allocation thread t makes in its call number n
BoxAddr(t, n) == t + CellThreads * n

\* SizedBox::new(val) and sized.as_mut(): val in a new allocation at addr
SizedBoxNew(boxes, addr, val) == boxes \cup {[addr |-> addr, val |-> val]}

\* the value in the allocation at addr
BoxVal(boxes, addr) == (CHOOSE b \in boxes : b.addr = addr).val

\* sized.into_inner(): the allocation is given up
SizedBoxIntoInner(boxes, addr) == {b \in boxes : b.addr # addr}

\* an exchange that stores new whatever the pointer holds
exchange(p, current, new) == [ok |-> TRUE, ptr |-> new]

\* AtomicPtr::compare_exchange(current, new, ..): [ok, ptr], ptr being what
\* the AtomicPtr holds afterwards
compare_exchange(p, current, new) ==
    IF p = current THEN [ok |-> TRUE, ptr |-> new]
    ELSE [ok |-> FALSE, ptr |-> p]

\* get: self.ptr.load(Acquire).as_ref(): [res, out]; a pointer to an
\* allocation that was given up is dangling
get(c) ==
    IF c.ptr = NullPtr THEN [res |-> "None", out |-> <<>>]
    ELSE IF \A b \in c.boxes : b.addr # c.ptr THEN [res |-> "ub", out |-> <<>>]
    ELSE [res |-> "Some", out |-> BoxVal(c.boxes, c.ptr)]

CellFixed ==
    UNCHANGED <<tokens, parsed, out, pc, ip, stack, heap, trace, status,
                steps, pre_trace, pre_status, text, lexer, ctx>>

\* thread t is between two calls and has a call left
Calling(t) ==
    /\ pc = "cell"
    /\ once.th[t].pc = "idle"
    /\ once.th[t].calls < CellCalls

\* try_init(val) up to its compare_exchange: the value <<t, n>> of call n
\* of thread t is put into a SizedBox
TryInitCall(t) ==
    /\ Calling(t)
    /\ LET n == once.th[t].calls
       IN  once' = [once EXCEPT
                !.boxes = SizedBoxNew(@, BoxAddr(t, n), <<t, n>>),
                !.th[t] = [pc |-> "cas", op |-> "try_init", val |-> <<t, n>>,
                           box |-> BoxAddr(t, n), res |-> "none",
                           out |-> <<>>, calls |-> n + 1]]
    /\ CellFixed

\* the compare_exchange of try_init and the match on its result: Ok(()) and
\* the SizedBox forgotten, or Err(sized.into_inner()); a get_or_init drops
\* the result and goes on to its second get
TryInitExchange(t) ==
    /\ pc = "cell" /\ once.th[t].pc = "cas"
    /\ LET me == once.th[t]
           r == compare_exchange(once.ptr, NullPtr, me.box)
           after == IF me.op = "try_init" THEN "idle" ELSE "get2"
       IN  once' =
             IF r.ok
             THEN [once EXCEPT
                     !.ptr = r.ptr,
                     !.installs = @ + 1,
                     !.first = IF once.installs = 0 THEN me.val ELSE @,
                     !.th[t] = [me EXCEPT !.pc = after, !.box = NullPtr,
                                          !.res = "Ok", !.out = <<>>]]
             ELSE [once EXCEPT
                     !.ptr = r.ptr,
                     !.boxes = SizedBoxIntoInner(@, me.box),
                     !.th[t] = [me EXCEPT !.pc = after, !.box = NullPtr,
                                          !.res = "Err",
                                          !.out = BoxVal(once.boxes, me.box)]]
    /\ CellFixed

\* a call of get
GetCall(t) ==
    /\ Calling(t)
    /\ once' = [once EXCEPT
            !.th[t] = Between("get", <<>>, get(once).res, get(once).out,
                              @.calls + 1)]
    /\ CellFixed

\* get_or_init(f) up to the return of its first get: the value is returned
\* if there is one, f is called otherwise
GetOrInitCall(t) ==
    /\ Calling(t)
    /\ once' = [once EXCEPT
            !.th[t] =
                IF get(once).res = "None"
                THEN [@ EXCEPT !.pc = "init", !.op = "get_or_init",
                               !.val = <<>>, !.res = "none", !.out = <<>>,
                               !.calls = @ + 1]
                ELSE Between("get_or_init", <<>>, get(once).res,
                             get(once).out, @.calls + 1)]
    /\ CellFixed

\* f() returns the value <<t, n>> and try_init puts it into a SizedBox
GetOrInitEval(t) ==
    /\ pc = "cell" /\ once.th[t].pc = "init"
    /\ LET n == once.th[t].calls - 1
       IN  once' = [once EXCEPT
                !.boxes = SizedBoxNew(@, BoxAddr(t, n), <<t, n>>),
                !.th[t] = [@ EXCEPT !.pc = "cas", !.val = <<t, n>>,
                                    !.box = BoxAddr(t, n)]]
    /\ CellFixed

\* self.get().unwrap_unchecked() at the end of get_or_init: undefined
\* behaviour if the get returns None
GetOrInitGet(t) ==
    /\ pc = "cell" /\ once.th[t].pc = "get2"
    /\ once' = [once EXCEPT
            !.th[t] = Between("get_or_init", @.val,
                              IF get(once).res = "Some" THEN "Some" ELSE "ub",
                              get(once).out, @.calls)]
    /\ CellFixed

CellInit ==
    /\ pc = "cell"
    /\ once = NewCell
    /\ tokens = <<>>
    /\ parsed = [st |-> "none", idx |-> 0, node |-> <<>>]
    /\ out = [st |-> "none", bc |-> <<>>, pre |-> <<>>]
    /\ ip = 0
    /\ stack = <<>>
    /\ heap = <<>>
    /\ trace = <<>>
    /\ status = "idle"
    /\ steps = 0
    /\ pre_trace = <<>>
    /\ pre_status = "idle"
    /\ text = <<>>
    /\ lexer = [idx |-> 0, some |-> FALSE, toks |-> <<>>, st |-> "idle"]
    /\ ctx = [curr_player |-> 0, meta |-> {}]

CellNext ==
    \/ \E t \in 1..CellThreads : TryInitCall(t)
    \/ \E t \in 1..CellThreads : TryInitExchange(t)
    \/ \E t \in 1..CellThreads : GetCall(t)
    \/ \E t \in 1..CellThreads : GetOrInitCall(t)
    \/ \E t \in 1..CellThreads : GetOrInitEval(t)
    \/ \E t \in 1..CellThreads : GetOrInitGet(t)

CellSpec == CellInit /\ [][CellNext]_vars

\* bound on the instructions one run may dispatch
MaxSteps == 80

(***************************************************************************)
(* vm.rs : Vm                                                              *)
(***************************************************************************)
code == IF pc = "run_pre" THEN out.pre ELSE out.bc

Dispatching ==
    /\ pc \in {"run_pre", "run"}
    /\ status = "running"
    /\ steps < MaxSteps
    /\ ip < Len(code)

curr == code[ip + 1]

\* the Box<String> cells the parser allocated for the CharSeq literals:
\* the literal at token position p lives at address p
\* slot marks the cells that were allocated for a stack slot
InitialHeap(toks) ==
    [p \in 1..Len(toks) |->
        [s |-> toks[p].s, freed |-> toks[p].k # "CharSeq", slot |-> FALSE]]

\* Vm::clone_ref: [heap, val, ub]; ub when a freed String is read
clone_ref(h, val) ==
    IF val.ty # "String" THEN [heap |-> h, val |-> val, ub |-> FALSE]
    ELSE IF h[val.val].freed THEN [heap |-> h, val |-> val, ub |-> TRUE]
    ELSE [heap |-> Append(h, [s |-> h[val.val].s, freed |-> FALSE,
                                 slot |-> TRUE]),
          val |-> RtString(Len(h) + 1), ub |-> FALSE]

\* a cleanup that drops the reference without freeing its storage
cleanupLeak(h, val) == [heap |-> h, ub |-> FALSE]

\* Vm::cleanup: [heap, ub]; ub when the String was already freed
cleanup(h, val) ==
    IF val.ty # "String" THEN [heap |-> h, ub |-> FALSE]
    ELSE IF h[val.val].freed THEN [heap |-> h, ub |-> TRUE]
    ELSE [heap |-> [h EXCEPT ![val.val].freed = TRUE], ub |-> FALSE]

\* RtRef::get_decimal: [some, n]
get_decimal(val) ==
    CASE val.ty = "Decimal" -> [some |-> TRUE, n |-> val.val]
      [] val.ty = "Bool" -> [some |-> TRUE, n |-> val.val]
      [] OTHER -> [some |-> FALSE, n |-> 0]

Abs(n) == IF n < 0 THEN -n ELSE n

\* the f64 operation of an arithmetic instruction on integral decimals:
\* [exact, n]; exact is FALSE when the f64 result is not an integer
ArithResult(op, l, r) ==
    CASE op = "Add" -> [exact |-> TRUE, n |-> l + r]
      [] op = "Sub" -> [exact |-> TRUE, n |-> l - r]
      [] op = "Mul" -> [exact |-> TRUE, n |-> l * r]
      [] op = "Div" ->
            IF r = 0 THEN [exact |-> FALSE, n |-> 0]
            ELSE IF Abs(l) % Abs(r) # 0 THEN [exact |-> FALSE, n |-> 0]
            ELSE [exact |-> TRUE,
                  n |-> (IF (l < 0) = (r < 0) THEN 1 ELSE -1)
                            * (Abs(l) \div Abs(r))]
      [] op = "Mod" ->
            IF r = 0 THEN [exact |-> FALSE, n |-> 0]
            ELSE [exact |-> TRUE,
                  n |-> (IF l < 0 THEN -1 ELSE 1) * (Abs(l) % Abs(r))]

\* the value an argument shows to a host function
Render(h, val) ==
    [ty |-> val.ty,
     n |-> IF val.ty = "String" THEN 0 ELSE val.val,
     s |-> IF val.ty = "String" THEN h[val.val].s ELSE ""]

\* number of "{}" in a format string of the model's string pool
Placeholders(str) == IF str = "{}" THEN 1 ELSE 0

\* funcs.rs println: "panic" on a missing or non-string format, a missing
\* argument for a placeholder, or to_string() of a kind it does not print
println_st(h, args) ==
    IF args = <<>> THEN "panic"
    ELSE IF args[1].ty # "String" THEN "panic"
    ELSE IF h[args[1].val].freed THEN "ub"
    ELSE IF Placeholders(h[args[1].val].s) + 1 > Len(args) THEN "panic"
    ELSE IF \E k \in 2..(Placeholders(h[args[1].val].s) + 1) :
                args[k].ty \notin {"Decimal", "None", "Bool", "String"}
         THEN "panic"
    ELSE IF \E k \in 2..(Placeholders(h[args[1].val].s) + 1) :
                args[k].ty = "String" /\ h[args[k].val].freed
         THEN "ub"
    ELSE "ok"

\* name of the player of index 0, who is the current player at the start
PlayerName == "p0"

\* main.rs CmdPlay::execute: the GameCtx before the script runs; every
\* player is active and no meta entry exists
NewCtx == [curr_player |-> 0, meta |-> {}]

\* players[idx].name
PlayerNameOf(idx) == IF idx = 0 THEN PlayerName ELSE "p" \o ToString(idx)

\* the result of a host call that panicked (st = "panic") or read a freed
\* String (st = "ub")
HostFail(c, h, st) ==
    [st |-> st, some |-> FALSE, ret |-> RtNull, heap |-> h, ctx |-> c]

\* next_player: the next index after curr_player, cyclically; every player is
\* active, so the loop returns in its first round
next_player(c, h) ==
    LET n == (c.curr_player + 1) % PlayerCount
    IN  [st |-> "ok", some |-> TRUE, ret |-> RtPlayer(n), heap |-> h,
         ctx |-> [c EXCEPT !.curr_player = n]]

\* player_name: the name of the current player when called without
\* arguments, get_player().unwrap() of its first argument otherwise, in a
\* new Box<String>
player_name(c, h, args, push_val) ==
    IF args # <<>> /\ args[1].ty # "Player" THEN HostFail(c, h, "panic")
    ELSE LET idx == IF args = <<>> THEN c.curr_player ELSE args[1].val
         IN  [st |-> "ok", some |-> TRUE, ret |-> RtString(Len(h) + 1),
              heap |-> Append(h, [s |-> PlayerNameOf(idx), freed |-> FALSE,
                                  slot |-> push_val]),
              ctx |-> c]

\* HashMap::insert on the meta map of a player: the entry of the name is
\* replaced
MetaInsert(meta, player, name, val) ==
    {m \in meta : ~(m.player = player /\ m.name = name)}
        \cup {[player |-> player, name |-> name, val |-> val]}

\* store_meta: with three arguments the RtRef args[2] itself is put into
\* the meta map of the player under a copy of the name; returns None
store_meta(c, h, args) ==
    IF ~(Len(args) < 4 /\ Len(args) > 1) THEN HostFail(c, h, "panic")
    ELSE IF Len(args) # 3
    THEN [st |-> "ok", some |-> FALSE, ret |-> RtNull, heap |-> h, ctx |-> c]
    ELSE IF args[1].ty # "Player" \/ args[2].ty # "String"
    THEN HostFail(c, h, "panic")
    ELSE IF h[args[2].val].freed THEN HostFail(c, h, "ub")
    ELSE [st |-> "ok", some |-> FALSE, ret |-> RtNull, heap |-> h,
          ctx |-> [c EXCEPT !.meta = MetaInsert(@, args[1].val,
                                                h[args[2].val].s, args[3])]]

\* load_meta: with two arguments a copy of the RtRef that the meta map of
\* the player holds under the name, None when it holds none; todo!() with
\* three
load_meta(c, h, args) ==
    IF ~(Len(args) < 4 /\ Len(args) > 1) THEN HostFail(c, h, "panic")
    ELSE IF Len(args) # 2 THEN HostFail(c, h, "panic")
    ELSE IF args[1].ty # "Player" \/ args[2].ty # "String"
    THEN HostFail(c, h, "panic")
    ELSE IF h[args[2].val].freed THEN HostFail(c, h, "ub")
    ELSE LET found == {m \in c.meta : /\ m.player = args[1].val
                                      /\ m.name = h[args[2].val].s}
         IN  IF found = {}
             THEN [st |-> "ok", some |-> FALSE, ret |-> RtNull, heap |-> h,
                   ctx |-> c]
             ELSE [st |-> "ok", some |-> TRUE,
                   ret |-> (CHOOSE m \in found : TRUE).val, heap |-> h,
                   ctx |-> c]

\* the host call of fn_idx: [st, some, ret, heap, ctx]
HostCall(c, h, fn_idx, args, push_val) ==
    CASE fns[fn_idx + 1].name = "println" ->
            [st |-> println_st(h, args), some |-> FALSE, ret |-> RtNull,
             heap |-> h, ctx |-> c]
      [] fns[fn_idx + 1].name = "playerCount" ->
            [st |-> "ok", some |-> TRUE, ret |-> RtDecimal(PlayerCount),
             heap |-> h, ctx |-> c]
      [] fns[fn_idx + 1].name = "playerName" ->
            player_name(c, h, args, push_val)
      [] fns[fn_idx + 1].name = "nextPlayer" -> next_player(c, h)
      [] fns[fn_idx + 1].name = "storeMeta" -> store_meta(c, h, args)
      [] fns[fn_idx + 1].name = "loadMeta" -> load_meta(c, h, args)
      [] OTHER ->
            [st |-> "ok", some |-> FALSE, ret |-> RtNull, heap |-> h,
             ctx |-> c]

Advance == ip' = ip + 1 /\ steps' = steps + 1

Halt(s) ==
    /\ status' = s
    /\ steps' = steps + 1
    /\ UNCHANGED <<ip, stack, heap, trace>>

Fixed ==
    UNCHANGED <<tokens, parsed, out, pc, pre_trace, pre_status, text, lexer,
                ctx, once>>

StepPush ==
    /\ Dispatching /\ curr.op = "Push" /\ Fixed
    /\ LET c == clone_ref(heap, curr.val)
       IN  IF c.ub THEN Halt("ub")
           ELSE /\ stack' = Append(stack, c.val)
                /\ heap' = c.heap
                /\ Advance
                /\ UNCHANGED <<trace, status>>

StepPop ==
    /\ Dispatching /\ curr.op = "Pop" /\ Fixed
    /\ LET pos == Len(stack) - 1 - curr.offset
       IN  IF pos < 0 THEN Halt("panic")
           ELSE LET f == cleanup(heap, stack[pos + 1])
                IN  IF f.ub THEN Halt("ub")
                    ELSE /\ stack' = SeqRemove(stack, pos)
                         /\ heap' = f.heap
                         /\ Advance
                         /\ UNCHANGED <<trace, status>>

StepMov ==
    /\ Dispatching /\ curr.op = "Mov" /\ Fixed
    /\ IF curr.dst_idx >= Len(stack) \/ curr.src_idx >= Len(stack)
       THEN Halt("panic")
       ELSE LET prev == stack[curr.dst_idx + 1]
                c == clone_ref(heap, stack[curr.src_idx + 1])
                f == cleanup(c.heap, prev)
            IN  IF c.ub \/ f.ub THEN Halt("ub")
                ELSE /\ stack' = [stack EXCEPT ![curr.dst_idx + 1] = c.val]
                     /\ heap' = f.heap
                     /\ Advance
                     /\ UNCHANGED <<trace, status>>

StepCall ==
    /\ Dispatching /\ curr.op = "Call"
    /\ UNCHANGED <<tokens, parsed, out, pc, pre_trace, pre_status, text, lexer,
                   once>>
    /\ IF \E k \in 1..Len(curr.arg_indices) : curr.arg_indices[k] >= Len(stack)
       THEN Halt("panic") /\ UNCHANGED ctx
       ELSE LET args == [k \in 1..Len(curr.arg_indices) |->
                            stack[curr.arg_indices[k] + 1]]
                r == HostCall(ctx, heap, curr.fn_idx, args, curr.push_val)
            IN  IF r.st # "ok" THEN Halt(r.st) /\ UNCHANGED ctx
                ELSE /\ ctx' = r.ctx
                     /\ trace' = Append(trace,
                            [fn |-> fns[curr.fn_idx + 1].name,
                             args |-> [k \in 1..Len(args) |->
                                          Render(heap, args[k])]])
                     /\ stack' = IF curr.push_val
                                 THEN Append(stack, r.ret) ELSE stack
                     /\ heap' = r.heap
                     /\ Advance
                     /\ UNCHANGED status

StepArith ==
    /\ Dispatching /\ curr.op \in {"Add", "Sub", "Mul", "Div", "Mod"} /\ Fixed
    /\ IF curr.arg1_idx >= Len(stack) \/ curr.arg2_idx >= Len(stack)
       THEN Halt("panic")
       ELSE LET left == get_decimal(stack[curr.arg1_idx + 1])
                right == get_decimal(stack[curr.arg2_idx + 1])
                res == ArithResult(curr.op, left.n, right.n)
            IN  IF ~left.some \/ ~right.some THEN Halt("panic")
                ELSE IF ~res.exact THEN Halt("nonint")
                ELSE /\ stack' = Append(stack, RtDecimal(res.n))
                     /\ Advance
                     /\ UNCHANGED <<heap, trace, status>>

StepBool ==
    /\ Dispatching /\ curr.op \in {"And", "Or"} /\ Fixed
    /\ IF curr.arg1_idx >= Len(stack) \/ curr.arg2_idx >= Len(stack)
       THEN Halt("panic")
       ELSE LET left == stack[curr.arg1_idx + 1]
                right == stack[curr.arg2_idx + 1]
            IN  IF left.ty # "Bool" \/ right.ty # "Bool" THEN Halt("panic")
                ELSE /\ stack' = Append(stack,
                            RtBool(IF curr.op = "And"
                                   THEN left.val = 1 /\ right.val = 1
                                   ELSE left.val = 1 \/ right.val = 1))
                     /\ Advance
                     /\ UNCHANGED <<heap, trace, status>>

\* self.ip = ((self.ip as isize) + relative_off) as usize; continue
JumpTo(rel) ==
    /\ ip' = JumpOther(ip, rel)
    /\ steps' = steps + 1
    /\ UNCHANGED <<stack, heap, trace, status>>

StepJump ==
    /\ Dispatching /\ curr.op = "Jump" /\ Fixed
    /\ JumpTo(curr.relative_off)

StepJumpCond ==
    /\ Dispatching /\ curr.op = "JumpCond" /\ Fixed
    /\ IF curr.arg_idx >= Len(stack) THEN Halt("panic")
       ELSE LET val == stack[curr.arg_idx + 1]
            IN  IF val.ty # "Bool" THEN Halt("panic")
                ELSE IF val = RtBool(TRUE) THEN JumpTo(curr.relative_off)
                ELSE Advance /\ UNCHANGED <<stack, heap, trace, status>>

\* the Ordering computed by the Compare arm for two values of one kind;
\* "todo" for the kinds whose arm is todo!() or missing
CmpOrdering(left, right) ==
    CASE left.ty = "Decimal" ->
            IF left.val < right.val THEN "Less"
            ELSE IF left.val = right.val THEN "Equal" ELSE "Greater"
      [] left.ty = "None" -> "Equal"
      [] left.ty = "Bool" -> IF left = right THEN "Equal" ELSE "NotEqual"
      [] OTHER -> "todo"

StepCompare ==
    /\ Dispatching /\ curr.op = "Compare" /\ Fixed
    /\ IF curr.arg1_idx >= Len(stack) \/ curr.arg2_idx >= Len(stack)
       THEN Halt("panic")
       ELSE LET left == stack[curr.arg1_idx + 1]
                right == stack[curr.arg2_idx + 1]
            IN  IF left.ty # right.ty THEN Halt("panic")
                ELSE IF CmpOrdering(left, right) = "todo" THEN Halt("panic")
                ELSE /\ stack' = Append(stack,
                            RtBool(curr.expected = CmpOrdering(left, right)))
                     /\ Advance
                     /\ UNCHANGED <<heap, trace, status>>

\* Vm::run has no arm for CallLocal and Return
StepNoArm ==
    /\ Dispatching /\ curr.op \in {"CallLocal", "Return"} /\ Fixed
    /\ Halt("noarm")

\* while let Some(curr) = self.code.get(self.ip) fails: run returns
StepEnd ==
    /\ pc \in {"run_pre", "run"} /\ status = "running" /\ ip >= Len(code)
    /\ status' = "done"
    /\ Fixed /\ UNCHANGED <<ip, stack, heap, trace, steps>>

StepCap ==
    /\ pc \in {"run_pre", "run"} /\ status = "running" /\ ip < Len(code)
    /\ steps >= MaxSteps
    /\ status' = "cap"
    /\ Fixed /\ UNCHANGED <<ip, stack, heap, trace, steps>>

(***************************************************************************)
(* The pipeline: parse, translate, Vm::new + run                           *)
(***************************************************************************)
Parse ==
    /\ pc = "parse"
    /\ parsed' = parse(tokens)
    /\ pc' = IF parsed'.st = "ok" THEN "translate" ELSE "end"
    /\ heap' = InitialHeap(tokens)
    /\ UNCHANGED <<tokens, out, ip, stack, trace, status, steps,
                   pre_trace, pre_status, text, lexer, ctx, once>>

Translate ==
    /\ pc = "translate"
    /\ out' = translate(parsed.node)
    /\ pc' = IF out'.st = "ok" THEN "run_pre" ELSE "end"
    /\ status' = IF out'.st = "ok" THEN "running" ELSE status
    /\ UNCHANGED <<tokens, parsed, ip, stack, heap, trace, steps,
                   pre_trace, pre_status, text, lexer, ctx, once>>

\* Vm::new(code, funcs) on the tape translate returned
StartRun ==
    /\ pc = "run_pre" /\ status # "running"
    /\ pc' = "run"
    /\ pre_trace' = trace
    /\ pre_status' = status
    /\ ip' = 0 /\ stack' = <<>> /\ trace' = <<>> /\ steps' = 0
    /\ status' = "running"
    /\ heap' = InitialHeap(tokens)
    /\ ctx' = NewCtx
    /\ UNCHANGED <<tokens, parsed, out, text, lexer, once>>

(***************************************************************************)
(* Source programs, as the token streams lex hands to parse                *)
(***************************************************************************)
LetSrc(name, e) == <<Tok("Let"), TLit(name), Tok("Assign")>> \o e

SetSrc(name, e) == <<TLit(name), Tok("Assign")>> \o e

\* println("{}", e)
ShowSrc(e) ==
    <<TLit("println"), Tok("OpenBrace"), TStr("{}"), Tok("Comma")>> \o e
        \o <<Tok("CloseBrace")>>

\* println("str")
SaySrc(str) ==
    <<TLit("println"), Tok("OpenBrace"), TStr(str), Tok("CloseBrace")>>

BlockSrc(body) == <<Tok("OpenCurly")>> \o body \o <<Tok("CloseCurly")>>

WhileSrc(c, body) == <<Tok("While")>> \o c \o BlockSrc(body)

IfSrc(c, body) == <<Tok("If")>> \o c \o BlockSrc(body)

ElseIfSrc(c, body) == <<Tok("Else"), Tok("If")>> \o c \o BlockSrc(body)

ElseSrc(body) == <<Tok("Else")>> \o BlockSrc(body)

Bin(a, op, b) == a \o <<Tok(op)>> \o b

Num(n) == <<TNum(n)>>

Ref(name) == <<TLit(name)>>

\* bounds of the program families: statements per block, and the largest
\* number a loop condition compares against
MaxBody == 2

MaxN == 2

\* S1: let x = 1 + 2 * 3  println("{}", x)
SrcS1 ==
    LetSrc("x", Bin(Num(1), "Add", Bin(Num(2), "Mul", Num(3))))
        \o ShowSrc(Ref("x"))

\* S2: let i = 0 while i < n { println("{}", i) i = i + 1 }
SrcS2(n) ==
    LetSrc("i", Num(0))
        \o WhileSrc(Bin(Ref("i"), "Lt", Num(n)),
                    ShowSrc(Ref("i"))
                        \o SetSrc("i", Bin(Ref("i"), "Add", Num(1))))

\* S3: let x = k if x == 1 { println("a") } else if x == 2 { println("b") }
\*     else { println("c") }
SrcS3(k) ==
    LetSrc("x", Num(k))
        \o IfSrc(Bin(Ref("x"), "Eq", Num(1)), SaySrc("a"))
        \o ElseIfSrc(Bin(Ref("x"), "Eq", Num(2)), SaySrc("b"))
        \o ElseSrc(SaySrc("c"))

\* S4: fn add(a b) { return a + b } println("{}", add(3, 4))
SrcS4 ==
    <<Tok("Fn"), TLit("add"), Tok("OpenBrace"), TLit("a"), TLit("b"),
      Tok("CloseBrace")>>
        \o BlockSrc(<<Tok("Return")>> \o Bin(Ref("a"), "Add", Ref("b")))
        \o ShowSrc(<<TLit("add"), Tok("OpenBrace"), TNum(3), Tok("Comma"),
                     TNum(4), Tok("CloseBrace")>>)

\* S5: fn f(a) { return a } f(1, 2)
SrcS5 ==
    <<Tok("Fn"), TLit("f"), Tok("OpenBrace"), TLit("a"), Tok("CloseBrace")>>
        \o BlockSrc(<<Tok("Return"), TLit("a")>>)
        \o <<TLit("f"), Tok("OpenBrace"), TNum(1), Tok("Comma"), TNum(2),
             Tok("CloseBrace")>>

\* fn f(<params>) { return 1 } followed by rest
FnSrc(name, params, body) ==
    <<Tok("Fn"), TLit(name), Tok("OpenBrace")>> \o params
        \o <<Tok("CloseBrace")>> \o BlockSrc(body)

\* name(1, .., n)
RECURSIVE NumArgs(_)
NumArgs(n) ==
    IF n = 0 THEN <<>>
    ELSE IF n = 1 THEN Num(1)
    ELSE NumArgs(n - 1) \o <<Tok("Comma")>> \o Num(n)

CallSrc(name, n) ==
    <<TLit(name), Tok("OpenBrace")>> \o NumArgs(n) \o <<Tok("CloseBrace")>>

\* programs that define a function with one parameter and call it with
\* nargs arguments, as a statement or inside let y = ..
ArityPrograms ==
    {FnSrc("f", Ref("a"), body) \o call :
        body \in {<<Tok("Return"), TLit("a")>>, <<Tok("Return"), TNum(1)>>},
        call \in {CallSrc("f", n) : n \in 0..2}
                 \cup {LetSrc("y", CallSrc("f", n)) : n \in 0..2}}

\* fn f() { return 1 } let y = f() println("{}", y)
SrcCallNoParam ==
    FnSrc("f", <<>>, <<Tok("Return"), TNum(1)>>)
        \o LetSrc("y", CallSrc("f", 0)) \o ShowSrc(Ref("y"))

Scenarios ==
    {SrcS1, SrcS4, SrcS5, SrcCallNoParam}
        \cup {SrcS2(n) : n \in 0..(MaxN + 1)}
        \cup {SrcS3(k) : k \in 1..3} \cup ArityPrograms

\* let r = a op1 b op2 c  println("{}", r), for every pair of operators
ChainAtoms ==
    { <<TNum(1), TNum(2), TNum(3)>>,
      <<TNum(3), TNum(2), TNum(1)>>,
      <<TBool(TRUE), TBool(FALSE), TBool(TRUE)>> }

ChainSrc(at, op1, op2) ==
    LetSrc("r", <<at[1], Tok(op1), at[2], Tok(op2), at[3]>>)
        \o ShowSrc(Ref("r"))

ChainPrograms ==
    {ChainSrc(at, op1, op2) :
        at \in ChainAtoms, op1 \in BinOpKinds, op2 \in BinOpKinds}

\* let r = !a op b
NotPrograms ==
    {LetSrc("r", <<Tok("Exclam"), TBool(a), Tok(op), TBool(b)>>) :
        a \in BOOLEAN, b \in BOOLEAN, op \in {"And", "Or", "Eq", "Ne"}}

Prelude == LetSrc("i", Num(0)) \o LetSrc("b", <<TBool(TRUE)>>)

Simple ==
    { LetSrc("tmp", Num(5)),
      SetSrc("i", Bin(Ref("i"), "Add", Num(1))),
      SetSrc("b", <<TBool(FALSE)>>),
      ShowSrc(Ref("i")),
      SaySrc("a") }

RECURSIVE Bodies(_)
\* the blocks of at most n simple statements
Bodies(n) ==
    IF n = 0 THEN {<<>>}
    ELSE {<<>>} \cup {st \o b : st \in Simple, b \in Bodies(n - 1)}

Conds ==
    {Ref("b"), <<TBool(FALSE)>>}
        \cup {Bin(Ref("i"), "Lt", Num(n)) : n \in 0..MaxN}

ElseBodies == {SaySrc("c"), LetSrc("tmp", Num(5))}

\* the while and if statements whose blocks hold at most n simple statements
Compound(n) ==
    {WhileSrc(c, b) : c \in Conds, b \in Bodies(n)}
        \cup {IfSrc(c, b) : c \in Conds, b \in Bodies(n)}
        \cup {IfSrc(c, b) \o ElseSrc(e) :
                c \in Conds, b \in Bodies(n), e \in ElseBodies}
        \cup {IfSrc(c1, SaySrc("a")) \o ElseIfSrc(c2, SaySrc("b"))
                \o ElseSrc(SaySrc("c")) : c1 \in Conds, c2 \in Conds}

Suffixes == {ShowSrc(Ref("i")), SaySrc("z")}

\* the prelude and one statement with blocks of up to MaxBody statements,
\* or one statement with blocks of at most one statement and a statement
\* after it
StatementPrograms ==
    {Prelude \o c : c \in Compound(MaxBody) \cup Simple}
        \cup {Prelude \o c \o x : c \in Compound(1) \cup Simple, x \in Suffixes}

\* statements on a string variable s
StrSimple ==
    { SetSrc("s", <<TStr("b")>>),
      SetSrc("s", Ref("s")),
      SetSrc("s", Num(1)),
      LetSrc("t", Ref("s")),
      LetSrc("t", <<TStr("c")>>),
      SetSrc("t", <<TStr("z")>>),
      ShowSrc(Ref("s")) }

\* let s = "a" and up to two statements on it, or a loop that reassigns it
StringPrograms ==
    {LetSrc("s", <<TStr("a")>>) \o x \o y :
        x \in StrSimple \cup {<<>>}, y \in StrSimple \cup {<<>>}}
        \cup {Prelude \o LetSrc("s", <<TStr("a")>>)
                \o WhileSrc(Bin(Ref("i"), "Lt", Num(n)),
                            x \o SetSrc("i", Bin(Ref("i"), "Add", Num(1)))) :
                x \in StrSimple, n \in 0..MaxN}

Literals ==
    {Num(n) : n \in 0..MaxN} \cup {<<TBool(b)>> : b \in BOOLEAN}
        \cup {<<TStr(str)>> : str \in {"a", "{}"}}

\* let x = <literal> println("{}", x), and let x = <literal> hostVar(x)
LiteralPrograms ==
    {LetSrc("x", lit) \o ShowSrc(Ref("x")) : lit \in Literals}
        \cup {LetSrc("x", lit)
                \o <<TLit("hostVar"), Tok("OpenBrace"), TLit("x"),
                     Tok("CloseBrace")>> : lit \in Literals}

\* argument expressions with host calls in them
HostArgs ==
    { CallSrc("playerCount", 0),
      CallSrc("playerName", 0),
      Num(1),
      <<TLit("playerName"), Tok("OpenBrace")>> \o CallSrc("playerCount", 0)
          \o <<Tok("CloseBrace")>> }

\* println("{}", a, b)
Show2Src(a, b) ==
    <<TLit("println"), Tok("OpenBrace"), TStr("{}"), Tok("Comma")>> \o a
        \o <<Tok("Comma")>> \o b \o <<Tok("CloseBrace")>>

\* a println with two argument expressions and a statement after it, or a
\* host call bound to a variable
HostCallPrograms ==
    {Show2Src(a, b) \o x :
        a \in HostArgs, b \in HostArgs,
        x \in {<<>>, SaySrc("z"), CallSrc("playerCount", 0),
               ShowSrc(CallSrc("playerName", 0))}}
        \cup {LetSrc("x", c) \o ShowSrc(Ref("x")) :
                c \in {CallSrc("playerCount", 0), CallSrc("playerName", 0)}}

\* one call statement of a host function with 0..MaxN numeric arguments
HostArityPrograms ==
    {CallSrc(fns[k].name, n) : k \in 1..Len(fns), n \in 0..MaxN}

\* the statements a function body is built from in ReturnPrograms:
\* return 1, return, let x = 1, if true { return 1 }, if true { return },
\* while true { return 1 }
BodyPieces ==
    { <<Tok("Return"), TNum(1)>>,
      <<Tok("Return")>>,
      LetSrc("x", Num(1)),
      IfSrc(<<TBool(TRUE)>>, <<Tok("Return"), TNum(1)>>),
      IfSrc(<<TBool(TRUE)>>, <<Tok("Return")>>),
      WhileSrc(<<TBool(TRUE)>>, <<Tok("Return"), TNum(1)>>) }

\* fn f() { <one or two statements> }
ReturnPrograms ==
    {FnSrc("f", <<>>, a) : a \in BodyPieces}
        \cup {FnSrc("f", <<>>, a \o b) : a, b \in BodyPieces}

\* a binary operation between two operand texts
OpSrc(a, op, b) == a \o <<Tok(op)>> \o b

\* name(a)
Call1Src(name, a) ==
    <<TLit(name), Tok("OpenBrace")>> \o a \o <<Tok("CloseBrace")>>

\* expressions over the variables i and b of Prelude: literals, bare
\* variables, binary operations and host calls
Exprs ==
    { Num(1), <<TBool(FALSE)>>, <<TStr("a")>>, Ref("i"), Ref("b"),
      OpSrc(Ref("i"), "Add", Num(1)), OpSrc(Num(1), "Add", Ref("i")),
      OpSrc(Ref("i"), "Add", Ref("i")), OpSrc(Num(1), "Sub", Num(2)),
      OpSrc(Ref("i"), "Lt", Num(1)), OpSrc(Ref("i"), "Ge", Num(1)),
      OpSrc(Num(1), "Eq", Ref("i")), OpSrc(Ref("b"), "And", Ref("b")),
      OpSrc(Ref("b"), "Or", <<TBool(FALSE)>>),
      OpSrc(Num(1), "Add", OpSrc(Num(2), "Mul", Num(3))),
      OpSrc(OpSrc(Num(2), "Mul", Ref("i")), "Add", Num(1)),
      CallSrc("playerCount", 0), CallSrc("playerName", 0),
      CallSrc("hostVar", 1), CallSrc("hostVar", 2),
      Call1Src("hostVar", Ref("i")),
      Call1Src("hostVar", OpSrc(Num(1), "Add", Ref("i"))),
      Call1Src("hostFixed", CallSrc("playerCount", 0)) }

\* let i = 0 let b = true let x = <expression>, then nothing, let y = x,
\* let y = x + 1 or println("{}", x)
ExprPrograms ==
    {Prelude \o LetSrc("x", e) \o x :
        e \in Exprs,
        x \in {<<>>, LetSrc("y", Ref("x")),
               LetSrc("y", OpSrc(Ref("x"), "Add", Num(1))),
               ShowSrc(Ref("x"))}}

\* let a = 1 let c = 2 return <expression>
ReturnBodies ==
    {LetSrc("a", Num(1)) \o LetSrc("c", Num(2)) \o <<Tok("Return")>> \o e :
        e \in {Ref("a"), Ref("c"), Num(1), OpSrc(Ref("a"), "Add", Ref("c")),
               CallSrc("playerCount", 0)}}

\* such a body at the top level and as the body of fn f()
ReturnExprPrograms ==
    ReturnBodies \cup {FnSrc("f", <<>>, body) : body \in ReturnBodies}

\* let i = 0 let b = true <name> = <expression>, then nothing or
\* println("{}", <name>)
ReassignPrograms ==
    {Prelude \o SetSrc(n, e) \o (IF show THEN ShowSrc(Ref(n)) ELSE <<>>) :
        n \in {"i", "b"}, e \in Exprs, show \in BOOLEAN}

\* let i = 0 let b = true let y = i <n> = 2 println("{}", <m>)
AliasPrograms ==
    {Prelude \o LetSrc("y", Ref("i")) \o SetSrc(n, Num(2)) \o ShowSrc(Ref(m)) :
        n \in {"i", "y"}, m \in {"i", "y"}}

\* let <n> = 5, with or without <n> = 7 after it, and println("{}", <n>)
Inner(n) ==
    {LetSrc(n, Num(5)) \o (IF set THEN SetSrc(n, Num(7)) ELSE <<>>)
        \o ShowSrc(Ref(n)) : set \in BOOLEAN}

Step == SetSrc("i", Bin(Ref("i"), "Add", Num(1)))

\* a while or if block that declares a variable named as one of the prelude,
\* and a read of that variable after the block
ShadowPrograms ==
    {Prelude \o WhileSrc(Ref("b"), x \o SetSrc("b", <<TBool(FALSE)>>))
        \o ShowSrc(Ref("i")) : x \in Inner("i")}
    \cup {Prelude \o WhileSrc(Bin(Ref("i"), "Lt", Num(1)), Step \o x)
            \o ShowSrc(Ref("i")) : x \in Inner("i")}
    \cup {Prelude \o WhileSrc(Bin(Ref("i"), "Lt", Num(1)), x \o Step)
            \o ShowSrc(Ref("b")) : x \in Inner("b")}
    \cup {Prelude \o IfSrc(c, x) \o ShowSrc(Ref(n)) :
            c \in {<<TBool(FALSE)>>, Bin(Ref("i"), "Lt", Num(0))},
            x \in Inner("i") \cup Inner("b"), n \in {"i", "b"}}

\* let r = <a> >= <b> println("{}", r), and the same with <=
OrderPrograms ==
    {LetSrc("r", Bin(Num(a), op, Num(b))) \o ShowSrc(Ref("r")) :
        a \in 0..MaxN, b \in 0..MaxN, op \in {"Ge", "Le"}}

ParenOps == {"Add", "Sub", "Mul"}

Paren(e) == <<Tok("OpenBrace")>> \o e \o <<Tok("CloseBrace")>>

\* let r = (1 op1 2) op2 3 println("{}", r)
ParenLeftPrograms ==
    {LetSrc("r", Bin(Paren(Bin(Num(1), op1, Num(2))), op2, Num(3)))
        \o ShowSrc(Ref("r")) : op1 \in ParenOps, op2 \in ParenOps}

\* let r = 1 op1 (2 op2 3) println("{}", r)
ParenRightPrograms ==
    {LetSrc("r", Bin(Num(1), op1, Paren(Bin(Num(2), op2, Num(3)))))
        \o ShowSrc(Ref("r")) : op1 \in ParenOps, op2 \in ParenOps}

\* let x = hostVar(1) + 2
SrcCallLeft == LetSrc("x", Bin(Call1Src("hostVar", Num(1)), "Add", Num(2)))

\* let x = 2 + hostVar(1)
SrcCallRight == LetSrc("x", Bin(Num(2), "Add", Call1Src("hostVar", Num(1))))

\* let x = 0 x = hostVar(1)
SrcCallSet == LetSrc("x", Num(0)) \o SetSrc("x", Call1Src("hostVar", Num(1)))

CallPositionPrograms == {SrcCallLeft, SrcCallRight, SrcCallSet}

\* let x = <host function>(0..MaxN numeric arguments)
HostArityLetPrograms ==
    {LetSrc("x", CallSrc(fns[k].name, n)) : k \in 1..Len(fns), n \in 0..MaxN}

\* hostVar(<host function>(0..MaxN numeric arguments))
HostArityArgPrograms ==
    {Call1Src("hostVar", CallSrc(fns[k].name, n)) :
        k \in 1..Len(fns), n \in 0..MaxN}

\* let r = (1 op1 2) op2 (3 op3 1)
ParenBothPrograms ==
    {LetSrc("r", Bin(Paren(Bin(Num(1), op1, Num(2))), op2,
                     Paren(Bin(Num(3), op3, Num(1))))) :
        op1 \in {"Add", "Mul"}, op2 \in {"Add", "Mul"}, op3 \in {"Add", "Mul"}}

\* input that ends inside a block or right after let, fn, return or =, and a
\* let or fn that is not followed by an identifier
TruncatedPrograms ==
    { Prelude \o <<Tok("While")>> \o Ref("b") \o <<Tok("OpenCurly")>>,
      Prelude \o <<Tok("If")>> \o Ref("b") \o <<Tok("OpenCurly")>>
          \o SaySrc("a"),
      <<Tok("Fn"), TLit("f"), Tok("OpenBrace"), Tok("CloseBrace"),
        Tok("OpenCurly")>>,
      <<Tok("Let")>>,
      <<Tok("Fn")>>,
      <<Tok("Return")>>,
      <<Tok("Let"), TLit("x"), Tok("Assign")>>,
      Prelude \o <<TLit("i"), Tok("Assign")>>,
      <<Tok("Let"), TNum(1), Tok("Assign"), TNum(2)>>,
      <<Tok("Fn"), TNum(1), Tok("OpenBrace"), Tok("CloseBrace"),
        Tok("OpenCurly"), Tok("CloseCurly")>>,
      <<Tok("Let"), TLit("x")>>,
      <<Tok("Let"), TLit("x"), Tok("Assign"), Tok("CloseBrace")>>,
      <<Tok("Let"), TLit("x"), Tok("Assign"), Tok("OpenBrace"), TNum(1)>>,
      <<Tok("CloseCurly")>> }

\* storeMeta(p, "k", <v>)
MetaStoreSrc(v) ==
    <<TLit("storeMeta"), Tok("OpenBrace"), TLit("p"), Tok("Comma"), TStr("k"),
      Tok("Comma")>> \o v \o <<Tok("CloseBrace")>>

\* loadMeta(p, "k")
MetaLoadSrc ==
    <<TLit("loadMeta"), Tok("OpenBrace"), TLit("p"), Tok("Comma"), TStr("k"),
      Tok("CloseBrace")>>

\* println("{}", loadMeta(p, "k")), and let <name> = loadMeta(p, "k")
\* println("{}", <name>)
MetaReads(name) ==
    {ShowSrc(MetaLoadSrc), LetSrc(name, MetaLoadSrc) \o ShowSrc(Ref(name))}

\* let p = nextPlayer(), then "v" stored under "k" as a literal or from a
\* variable, then one or two reads
MetaPrograms ==
    {LetSrc("p", CallSrc("nextPlayer", 0)) \o st \o r1 \o r2 :
        st \in {MetaStoreSrc(<<TStr("v")>>),
                LetSrc("s", <<TStr("v")>>) \o MetaStoreSrc(Ref("s"))},
        r1 \in MetaReads("x"), r2 \in MetaReads("y") \cup {<<>>}}

Sources ==
    Scenarios \cup ChainPrograms \cup NotPrograms \cup StatementPrograms
        \cup StringPrograms \cup LiteralPrograms \cup HostCallPrograms
        \cup HostArityPrograms \cup ReturnPrograms \cup ExprPrograms
        \cup ReturnExprPrograms \cup ReassignPrograms \cup AliasPrograms
        \cup ShadowPrograms \cup OrderPrograms \cup ParenLeftPrograms
        \cup ParenRightPrograms \cup CallPositionPrograms
        \cup HostArityLetPrograms \cup HostArityArgPrograms
        \cup ParenBothPrograms \cup TruncatedPrograms \cup MetaPrograms

Init ==
    /\ tokens \in Sources
    /\ parsed = [st |-> "none", idx |-> 0, node |-> <<>>]
    /\ out = [st |-> "none", bc |-> <<>>, pre |-> <<>>]
    /\ pc = "parse"
    /\ ip = 0
    /\ stack = <<>>
    /\ heap = <<>>
    /\ trace = <<>>
    /\ status = "idle"
    /\ steps = 0
    /\ pre_trace = <<>>
    /\ pre_status = "idle"
    /\ text = <<>>
    /\ lexer = [idx |-> 0, some |-> FALSE, toks |-> <<>>, st |-> "idle"]
    /\ ctx = NewCtx
    /\ once = NewCell

Next ==
    \/ Parse
    \/ Translate
    \/ StartRun
    \/ StepPush
    \/ StepPop
    \/ StepMov
    \/ StepCall
    \/ StepArith
    \/ StepBool
    \/ StepJump
    \/ StepJumpCond
    \/ StepCompare
    \/ StepNoArm
    \/ StepEnd
    \/ StepCap

Spec == Init /\ [][Next]_vars

\* the while let Some(curr) = self.code.get(self.ip) loop of Vm::run: one
\* instruction, or the end of the run
RunStep ==
    \/ StepPush
    \/ StepPop
    \/ StepMov
    \/ StepCall
    \/ StepArith
    \/ StepBool
    \/ StepJump
    \/ StepJumpCond
    \/ StepCompare
    \/ StepNoArm
    \/ StepEnd
    \/ StepCap

\* a run that was started does not stop while the loop has a step to take
FairSpec == Init /\ [][Next]_vars /\ WF_vars(RunStep)

(***************************************************************************)
(* lexer.rs : lex.  The text is a sequence of characters; a token is       *)
(* [k, s, n] with s the characters of a Lit or CharSeq and n the value of  *)
(* a Number or Bool.                                                       *)
(***************************************************************************)
\* bound on the length of the texts enumerated exhaustively
MaxText == 3

\* char::is_numeric, char::is_alphabetic and the blanks, on the characters
\* of the model's texts
Numeric == {"0", "1", "2", "3", "4", "5", "6", "7", "8", "9"}

Alphabetic == {"a", "b", "x"}

Blank == {" ", "\r", "\n"}

Quote == "\""

\* the characters the model's texts are made of
Alphabet ==
    {"1", "5", ".", "a", "x", "_", Quote, " ", "\n", "{", "+", "!", "=",
     "<", ">", "/", "&"}

LTok(k, s, n) == [k |-> k, s |-> s, n |-> n]

DigitVal(c) ==
    CASE c = "0" -> 0 [] c = "1" -> 1 [] c = "2" -> 2 [] c = "3" -> 3
      [] c = "4" -> 4 [] c = "5" -> 5 [] c = "6" -> 6 [] c = "7" -> 7
      [] c = "8" -> 8 [] c = "9" -> 9

RECURSIVE ParseNumber(_)
\* buffer.parse::<f64>() of a buffer of digits
ParseNumber(buf) ==
    IF buf = <<>> THEN 0
    ELSE 10 * ParseNumber(SubSeq(buf, 1, Len(buf) - 1))
            + DigitVal(buf[Len(buf)])

\* an iterator that drops a character at every call
IterNextTwice(l) ==
    IF l.idx + 1 < Len(text) THEN [l EXCEPT !.idx = @ + 2, !.some = TRUE]
    ELSE [l EXCEPT !.some = FALSE]

\* LexingIter::next on the iterator part [idx, some] of l
IterNext(l) ==
    IF l.idx < Len(text) THEN [l EXCEPT !.idx = @ + 1, !.some = TRUE]
    ELSE [l EXCEPT !.some = FALSE]

\* position of the first character after from on which `until` is true,
\* for an `until` that is false exactly on the characters of cont; 0 if none
ScanStop(from, cont) ==
    IF \E j \in (from + 1)..Len(text) : text[j] \notin cont
    THEN CHOOSE j \in (from + 1)..Len(text) :
            /\ text[j] \notin cont
            /\ \A m \in (from + 1)..(j - 1) : text[m] \in cont
    ELSE 0

\* collect_string_until from iterator position from: [idx, some, buffer],
\* some and idx as the returned Option<char> and the iterator leave them
collect_string_until(from, cont) ==
    IF ScanStop(from, cont) # 0
    THEN [idx |-> ScanStop(from, cont), some |-> TRUE,
          buffer |-> SubSeq(text, from + 1, ScanStop(from, cont) - 1)]
    ELSE [idx |-> Len(text), some |-> FALSE,
          buffer |-> SubSeq(text, from + 1, Len(text))]

\* the token of a word: a keyword, a Bool or a Lit
WordToken(lit) ==
    CASE lit = <<"t", "r", "u", "e">> -> LTok("Bool", <<>>, 1)
      [] lit = <<"f", "a", "l", "s", "e">> -> LTok("Bool", <<>>, 0)
      [] lit = <<"f", "n">> -> LTok("Fn", <<>>, 0)
      [] lit = <<"r", "e", "t", "u", "r", "n">> -> LTok("Return", <<>>, 0)
      [] lit = <<"l", "e", "t">> -> LTok("Let", <<>>, 0)
      [] lit = <<"w", "h", "i", "l", "e">> -> LTok("While", <<>>, 0)
      [] lit = <<"i", "f">> -> LTok("If", <<>>, 0)
      [] lit = <<"e", "l", "s", "e">> -> LTok("Else", <<>>, 0)
      [] OTHER -> LTok("Lit", lit, 0)

\* the one-character tokens
SingleKind(c) ==
    CASE c = "{" -> "OpenCurly" [] c = "}" -> "CloseCurly"
      [] c = "(" -> "OpenBrace" [] c = ")" -> "CloseBrace"
      [] c = "," -> "Comma" [] c = "+" -> "Add" [] c = "-" -> "Sub"
      [] c = "*" -> "Mul" [] c = "%" -> "Mod"

Singles == {"{", "}", "(", ")", ",", "+", "-", "*", "%"}

\* the operators that an `=` after them completes: [one, two]
PairKind(c) ==
    CASE c = "!" -> [one |-> "Exclam", two |-> "Ne"]
      [] c = "=" -> [one |-> "Assign", two |-> "Eq"]
      [] c = "<" -> [one |-> "Lt", two |-> "Le"]
      [] c = ">" -> [one |-> "Gt", two |-> "Ge"]

Pairs == {"!", "=", "<", ">"}

Doubles == {"&", "|"}

\* the loop of lex is at its head with next_chr = Some(chr)
Lexing == pc = "lex" /\ lexer.st = "run" /\ lexer.some

chr == text[lexer.idx]

LexFixed ==
    UNCHANGED <<tokens, parsed, out, pc, ip, stack, heap, trace, status,
                steps, pre_trace, pre_status, text, ctx, once>>

\* tokens.push(token), with the iterator left as it
Pushed(tok, it) ==
    [idx |-> it.idx, some |-> it.some, toks |-> Append(lexer.toks, tok),
     st |-> "run"]

LexBlank ==
    /\ Lexing /\ chr \in Blank /\ LexFixed
    /\ lexer' = IterNext(lexer)

\* dots counts the '.' the closure saw: it stops at the first character
\* that is not numeric, so only that one can be a '.'
LexNumber ==
    /\ Lexing /\ chr \notin Blank /\ chr \in Numeric /\ LexFixed
    /\ LET c == collect_string_until(lexer.idx, Numeric)
           dots == IF c.some /\ text[c.idx] = "." THEN 1 ELSE 0
       IN  lexer' = IF dots > 1 THEN [lexer EXCEPT !.st = "err"]
                    ELSE Pushed(LTok("Number", <<>>,
                                     ParseNumber(<<chr>> \o c.buffer)), c)

LexWord ==
    /\ Lexing /\ chr \notin Blank \cup Numeric /\ chr \in Alphabetic
    /\ LexFixed
    /\ LET c == collect_string_until(lexer.idx,
                                     Alphabetic \cup Numeric \cup {"_"})
       IN  lexer' = Pushed(WordToken(<<chr>> \o c.buffer), c)

\* collect up to the next '"' or the end of the text, then iter.next()
LexCharSeq ==
    /\ Lexing /\ chr = Quote /\ LexFixed
    /\ LET c == collect_string_until(lexer.idx, Alphabet \ {Quote})
       IN  lexer' = Pushed(LTok("CharSeq", c.buffer, 0), IterNext(c))

LexSingle ==
    /\ Lexing /\ chr \in Singles /\ LexFixed
    /\ lexer' = Pushed(LTok(SingleKind(chr), <<>>, 0), IterNext(lexer))

\* '!', '=', '<', '>': the next character is read; '=' completes the
\* two-character token, anything else stays the next character (has_next)
LexPair ==
    /\ Lexing /\ chr \in Pairs /\ LexFixed
    /\ LET n == IterNext(lexer)
       IN  lexer' = IF n.some /\ text[n.idx] = "="
                    THEN Pushed(LTok(PairKind(chr).two, <<>>, 0), IterNext(n))
                    ELSE Pushed(LTok(PairKind(chr).one, <<>>, 0), n)

\* '/': a second '/' starts a comment that runs to the '\n' or the end
LexSlash ==
    /\ Lexing /\ chr = "/" /\ LexFixed
    /\ LET n == IterNext(lexer)
           c == collect_string_until(n.idx, Alphabet \ {"\n"})
       IN  lexer' = IF n.some /\ text[n.idx] = "/"
                    THEN [lexer EXCEPT !.idx = c.idx, !.some = c.some]
                    ELSE Pushed(LTok("Div", <<>>, 0), n)

\* '&' and '|' must be doubled
LexDouble ==
    /\ Lexing /\ chr \in Doubles /\ LexFixed
    /\ LET n == IterNext(lexer)
       IN  lexer' = IF n.some /\ text[n.idx] = chr
                    THEN Pushed(LTok(IF chr = "&" THEN "And" ELSE "Or",
                                     <<>>, 0), IterNext(n))
                    ELSE [lexer EXCEPT !.idx = n.idx, !.some = n.some,
                                       !.st = "err"]

LexUnexpected ==
    /\ Lexing
    /\ chr \notin Blank \cup Numeric \cup Alphabetic \cup {Quote, "/"}
                    \cup Singles \cup Pairs \cup Doubles
    /\ LexFixed
    /\ lexer' = [lexer EXCEPT !.st = "err"]

\* next_chr is None: Ok(tokens)
LexEnd ==
    /\ pc = "lex" /\ lexer.st = "run" /\ ~lexer.some /\ LexFixed
    /\ lexer' = [lexer EXCEPT !.st = "ok"]

RECURSIVE Texts(_)
\* the texts of at most n characters
Texts(n) ==
    IF n = 0 THEN {<<>>}
    ELSE {<<>>} \cup {<<c>> \o t : c \in Alphabet, t \in Texts(n - 1)}

\* longer texts: 1.5.1, 15.51, "a x, a<=x, x=15, a //x<nl>5, a&&x
LongTexts ==
    { <<"1", ".", "5", ".", "1">>,
      <<"1", "5", ".", "5", "1">>,
      <<Quote, "a", " ", "x">>,
      <<"a", "<", "=", "x">>,
      <<"x", "=", "1", "5">>,
      <<"a", " ", "/", "/", "x", "\n", "5">>,
      <<"a", "&", "&", "x">> }

\* lex(src): let mut next_chr = iter.next()
LexInit ==
    /\ text \in Texts(MaxText) \cup LongTexts
    /\ lexer = [idx |-> IF text = <<>> THEN 0 ELSE 1, some |-> text # <<>>,
                toks |-> <<>>, st |-> "run"]
    /\ pc = "lex"
    /\ tokens = <<>>
    /\ parsed = [st |-> "none", idx |-> 0, node |-> <<>>]
    /\ out = [st |-> "none", bc |-> <<>>, pre |-> <<>>]
    /\ ip = 0
    /\ stack = <<>>
    /\ heap = <<>>
    /\ trace = <<>>
    /\ status = "idle"
    /\ steps = 0
    /\ pre_trace = <<>>
    /\ pre_status = "idle"
    /\ ctx = NewCtx
    /\ once = NewCell

LexNext ==
    \/ LexBlank
    \/ LexNumber
    \/ LexWord
    \/ LexCharSeq
    \/ LexSingle
    \/ LexPair
    \/ LexSlash
    \/ LexDouble
    \/ LexUnexpected
    \/ LexEnd

LexSpec == LexInit /\ [][LexNext]_vars

(***************************************************************************)
(* bytecode.rs : Translator::optimize on its own, one round of its         *)
(* while !optimized loop per step.  out.pre is the code it was given,      *)
(* out.bc the code so far, out.st "ok" once it has returned.               *)
(***************************************************************************)
\* bound on the length of the instruction sequences given to optimize
MaxTape == 4

\* the instructions the sequences are made of
TapeIns ==
    {Push(RtDecimal(1)), Pop(0), Pop(1)}
        \cup {Jump(r) : r \in {-3, -2, -1, 1, 2, 3}}
        \cup {JumpCond(r, 0) : r \in {-2, 2}}

RECURSIVE Tapes(_)
\* the instruction sequences of at most n instructions
Tapes(n) ==
    IF n = 0 THEN {<<>>}
    ELSE {<<>>} \cup {<<c>> \o t : c \in TapeIns, t \in Tapes(n - 1)}

OptFixed ==
    UNCHANGED <<tokens, parsed, pc, ip, stack, heap, trace, status, steps,
                pre_trace, pre_status, text, lexer, ctx, once>>

\* a round that finds a Push followed by Pop { offset: 0 } and removes it
OptRound ==
    /\ pc = "opt" /\ out.st = "none" /\ FirstPushPop(out.bc) # 0
    /\ out' = [out EXCEPT !.bc = RemovePair(@, FirstPushPop(@))]
    /\ OptFixed

\* a round that finds no such pair: optimized stays true, optimize returns
OptEnd ==
    /\ pc = "opt" /\ out.st = "none" /\ FirstPushPop(out.bc) = 0
    /\ out' = [out EXCEPT !.st = "ok"]
    /\ OptFixed

OptInit ==
    /\ out \in {[st |-> "none", bc |-> t, pre |-> t] : t \in Tapes(MaxTape)}
    /\ pc = "opt"
    /\ tokens = <<>>
    /\ parsed = [st |-> "none", idx |-> 0, node |-> <<>>]
    /\ ip = 0
    /\ stack = <<>>
    /\ heap = <<>>
    /\ trace = <<>>
    /\ status = "idle"
    /\ steps = 0
    /\ pre_trace = <<>>
    /\ pre_status = "idle"
    /\ text = <<>>
    /\ lexer = [idx |-> 0, some |-> FALSE, toks |-> <<>>, st |-> "idle"]
    /\ ctx = NewCtx
    /\ once = NewCell

OptNext ==
    \/ OptRound
    \/ OptEnd

OptSpec == OptInit /\ [][OptNext]_vars

\* the while loop of optimize keeps running while it can
OptFairSpec == OptInit /\ [][OptNext]_vars /\ WF_vars(OptNext)




(***************************************************************************)
(* Reference semantics of the source language, used to state what a        *)
(* program is expected to do: an environment of (name, value) bindings,    *)
(* innermost last; values in the form a host function sees them.           *)
(***************************************************************************)
RefError == [ty |-> "Error", n |-> 0, s |-> ""]

RefDecimal(num) == [ty |-> "Decimal", n |-> num, s |-> ""]

RefBool(b) == [ty |-> "Bool", n |-> IF b THEN 1 ELSE 0, s |-> ""]

RefString(str) == [ty |-> "String", n |-> 0, s |-> str]

\* the value of a literal; a String literal is the text of its token
RefVal(toks, v) ==
    IF v.ty = "String" THEN RefString(toks[v.val].s)
    ELSE [ty |-> v.ty, n |-> v.val, s |-> ""]

RefBound(env, name) == \E k \in 1..Len(env) : env[k].name = name

\* position of the innermost binding of name
RefSlot(env, name) ==
    CHOOSE k \in 1..Len(env) :
        /\ env[k].name = name
        /\ \A m \in (k + 1)..Len(env) : env[m].name # name

RefBinOp(op, l, r) ==
    IF l.ty = "Decimal" /\ r.ty = "Decimal" THEN
        CASE op = "Add" -> RefDecimal(l.n + r.n)
          [] op = "Sub" -> RefDecimal(l.n - r.n)
          [] op = "Mul" -> RefDecimal(l.n * r.n)
          [] op = "Eq" -> RefBool(l.n = r.n)
          [] op = "Ne" -> RefBool(l.n # r.n)
          [] op = "Lt" -> RefBool(l.n < r.n)
          [] op = "Gt" -> RefBool(l.n > r.n)
          [] op = "Le" -> RefBool(l.n <= r.n)
          [] op = "Ge" -> RefBool(l.n >= r.n)
          [] OTHER -> RefError
    ELSE IF l.ty = "Bool" /\ r.ty = "Bool" THEN
        CASE op = "And" -> RefBool(l.n = 1 /\ r.n = 1)
          [] op = "Or" -> RefBool(l.n = 1 \/ r.n = 1)
          [] op = "Eq" -> RefBool(l.n = r.n)
          [] op = "Ne" -> RefBool(l.n # r.n)
          [] OTHER -> RefError
    ELSE RefError

RECURSIVE RefEval(_, _, _)
RefEval(toks, env, node) ==
    CASE node.tag = "Val" -> RefVal(toks, node.val)
      [] node.tag = "Var" ->
            IF RefBound(env, node.name) THEN env[RefSlot(env, node.name)].val
            ELSE RefError
      [] node.tag = "BinOp" ->
            RefBinOp(node.op, RefEval(toks, env, node.lhs),
                     RefEval(toks, env, node.rhs))
      [] OTHER -> RefError

RefFail(r) == [r EXCEPT !.st = "err"]

RECURSIVE RefStmts(_, _, _, _), RefLoop(_, _, _), RefCond(_, _, _, _)

\* a block: its statements, then the bindings it declared go out of scope
RefBlock(toks, stmts, r) ==
    LET r2 == RefStmts(toks, stmts, 1, r)
    IN  [r2 EXCEPT !.env = SubSeq(@, 1, Len(r.env))]

RefDefineVar(toks, stmt, r) ==
    LET v == RefEval(toks, r.env, stmt.val)
    IN  IF v = RefError THEN RefFail(r)
        ELSE IF ~stmt.reassign
             THEN [r EXCEPT !.env = Append(@, [name |-> stmt.name, val |-> v])]
        ELSE IF ~RefBound(r.env, stmt.name) THEN RefFail(r)
        ELSE [r EXCEPT !.env[RefSlot(r.env, stmt.name)].val = v]

RefCallFunc(toks, stmt, r) ==
    LET args == [k \in 1..Len(stmt.args) |-> RefEval(toks, r.env, stmt.args[k])]
    IN  IF \E k \in 1..Len(args) : args[k] = RefError THEN RefFail(r)
        ELSE [r EXCEPT !.trace = Append(@, [fn |-> stmt.name, args |-> args])]

\* while: evaluate the condition; false leaves the loop, true runs the body
\* once and evaluates again.  fuel bounds the iterations still allowed.
RefLoop(toks, stmt, r) ==
    LET c == RefEval(toks, r.env, stmt.condition)
    IN  IF r.st # "ok" THEN r
        ELSE IF c.ty # "Bool" THEN RefFail(r)
        ELSE IF c.n = 0 THEN r
        ELSE IF r.fuel = 0 THEN [r EXCEPT !.st = "fuel"]
        ELSE RefLoop(toks, stmt,
                     RefBlock(toks, stmt.stmts, [r EXCEPT !.fuel = @ - 1]))

\* if / else if / else: the body of the first pair whose condition is true,
\* the fallback when none is
RefCond(toks, stmt, i, r) ==
    IF i > Len(stmt.seq) THEN RefBlock(toks, stmt.fallback, r)
    ELSE LET c == RefEval(toks, r.env, stmt.seq[i][1])
         IN  IF c.ty # "Bool" THEN RefFail(r)
             ELSE IF c.n = 1 THEN RefBlock(toks, stmt.seq[i][2], r)
             ELSE RefCond(toks, stmt, i + 1, r)

RefStmt(toks, stmt, r) ==
    CASE stmt.tag = "DefineVar" -> RefDefineVar(toks, stmt, r)
      [] stmt.tag = "CallFunc" -> RefCallFunc(toks, stmt, r)
      [] stmt.tag = "Loop" -> RefLoop(toks, stmt, r)
      [] stmt.tag = "Conditional" -> RefCond(toks, stmt, 1, r)
      [] OTHER -> RefFail(r)

RefStmts(toks, stmts, i, r) ==
    IF r.st # "ok" \/ i > Len(stmts) THEN r
    ELSE RefStmts(toks, stmts, i + 1, RefStmt(toks, stmts[i], r))

\* loop iterations the reference run may make: an iteration that makes a
\* host call costs the VM at least four steps (Push, Call, Pop, JumpCond),
\* so within MaxSteps steps the VM cannot make more host calls than this run
RefFuel == MaxSteps \div 4

\* the expected run of the parsed program: [trace, env, fuel, st], st "ok",
\* "fuel" (still looping after RefFuel iterations) or "err"
RefRun ==
    RefStmts(tokens, parsed.node, 1,
             [trace |-> <<>>, env |-> <<>>, fuel |-> RefFuel, st |-> "ok"])

IsPrefix(s, t) == Len(s) <= Len(t) /\ SubSeq(t, 1, Len(s)) = s

\* the host call println("{}", k) as the trace records it
Shown(k) ==
    [fn |-> "println", args |-> <<RefString("{}"), RefDecimal(k)>>]

HasToken(k) == \E p \in 1..Len(tokens) : tokens[p].k = k

Running == pc \in {"run_pre", "run"}

\* a run that ended by itself, not at the model's step bound
Ended == Running /\ status \notin {"running", "cap"}

(***************************************************************************)
(* Claims                                                                  *)
(***************************************************************************)

\* the instructions translate_node and the statement arms append at the
\* place where they execute, so that stack_idx at emission is the depth the
\* translator simulates for the moment before the instruction runs
ValueOps ==
    {"Push", "Mov", "Call", "Add", "Sub", "Mul", "Div", "Mod", "And", "Or",
     "Compare"}

\* C1: each time the VM is about to execute an instruction, the length of
\* the VM stack equals the translator's stack_idx when that instruction was
\* emitted.  Stated for the value instructions (Push, Mov, Call, the
\* operators and Compare) of programs made of let, reassignment, host
\* calls, while and if/else.
C1_StackParity ==
    (Dispatching /\ curr.op \in ValueOps) => Len(stack) = curr.si

\* C2: an if / else-if / else statement runs the body of the first pair
\* whose condition is true and no other body, the fallback when none is
\* true, and then the statement after it: a program with an if that runs to
\* its end has made exactly the host calls of the reference semantics.
C2_FirstTrueBranchOnly ==
    (Ended /\ HasToken("If")) => (status = "done" /\ trace = RefRun.trace)

\* the programs whose last statement is a while loop
WhilePrograms ==
    {Prelude \o WhileSrc(c, b) : c \in Conds, b \in Bodies(MaxBody)}
        \cup {SrcS2(n) : n \in 0..(MaxN + 1)}

\* C3: while c { body } evaluates c before the first iteration and after
\* every iteration, runs the body once per evaluation that yields true and
\* leaves at the first that yields false: the host calls made are always a
\* prefix of those of the reference semantics, a run that returns has made
\* exactly those, no run panics, and only a loop that never leaves under
\* the reference semantics is still running at the step bound.
C3_WhileSemantics ==
    (Running /\ tokens \in WhilePrograms) =>
        /\ IsPrefix(trace, RefRun.trace)
        /\ status \in {"running", "done", "cap"}
        /\ status = "done" => (RefRun.st = "ok" /\ trace = RefRun.trace)
        /\ status = "cap" => RefRun.st = "fuel"

\* S2 with the bound 3 has returned after println 0, 1, 2 with an empty stack
C3_Witness ==
    /\ tokens = SrcS2(3)
    /\ pc = "run" /\ status = "done"
    /\ trace = <<Shown(0), Shown(1), Shown(2)>>
    /\ stack = <<>>

\* the three atoms and two operators of a program let r = a op1 b op2 c
ChainA == Atom(tokens[4], 4)

ChainB == Atom(tokens[6], 6)

ChainC == Atom(tokens[8], 8)

ChainOp1 == tokens[5].k

ChainOp2 == tokens[7].k

\* the tree parse built for the value of the program's first statement
ParsedValue == parsed.node[1].val

\* C4: a op1 b op2 c with op2 of strictly higher priority than op1 parses
\* to BinOp(a, op1, BinOp(b, op2, c)), and let x = 1 + 2 * 3 binds x to 7.
C4_HigherPriorityBindsTighter ==
    /\ (/\ tokens \in ChainPrograms
        /\ pc # "parse"
        /\ priority(ChainOp2) > priority(ChainOp1))
            => (/\ parsed.st = "ok"
                /\ ParsedValue =
                       NBinOp(ChainA, NBinOp(ChainB, ChainC, ChainOp2),
                              ChainOp1))
    /\ tokens = SrcS1 =>
            (/\ pc # "end"
             /\ status \in {"idle", "running", "done"}
             /\ (Running /\ status = "done") => trace = <<Shown(7)>>)

\* let x = 1 + 2 * 3 println("{}", x) has returned after println("{}", 7)
C4_Witness ==
    /\ tokens = SrcS1
    /\ pc = "run" /\ status = "done"
    /\ ParsedValue =
           NBinOp(NVal(RtDecimal(1)),
                  NBinOp(NVal(RtDecimal(2)), NVal(RtDecimal(3)), "Mul"),
                  "Add")
    /\ trace = <<Shown(7)>>

\* C5: a op1 b op2 c with op1 of priority greater than or equal to op2's
\* parses to BinOp(BinOp(a, op1, b), op2, c), and 1 - 2 - 3 evaluates to -4.
C5_EqualPriorityLeftToRight ==
    /\ (/\ tokens \in ChainPrograms
        /\ pc # "parse"
        /\ priority(ChainOp1) >= priority(ChainOp2))
            => (/\ parsed.st = "ok"
                /\ ParsedValue =
                       NBinOp(NBinOp(ChainA, ChainB, ChainOp1), ChainC,
                              ChainOp2))
    /\ (/\ tokens = ChainSrc(<<TNum(1), TNum(2), TNum(3)>>, "Sub", "Sub")
        /\ Ended)
            => (status = "done" /\ trace = <<Shown(-4)>>)

\* C6: !a op b parses as BinOp(UnaryOp(Not, a), op, b), never as
\* UnaryOp(Not, BinOp(a, op, b)).
C6_NotBindsToPrimary ==
    (tokens \in NotPrograms /\ pc # "parse") =>
        (/\ parsed.st = "ok"
         /\ ParsedValue =
                NBinOp(NUnaryOp(Atom(tokens[5], 5)), Atom(tokens[7], 7),
                       tokens[6].k))

\* C7: fn add(a b) { return a + b } println("{}", add(3, 4)) compiles, and
\* at run time println is invoked with 7.
C7_UserFunctionCall ==
    tokens = SrcS4 =>
        (/\ pc # "end"
         /\ Ended => (status = "done" /\ trace = <<Shown(7)>>))

\* number of arguments of the call that ends a program of ArityPrograms
ArityArgs ==
    CHOOSE n \in 0..2 :
        \E body \in {<<Tok("Return"), TLit("a")>>, <<Tok("Return"), TNum(1)>>} :
            tokens \in {FnSrc("f", Ref("a"), body) \o CallSrc("f", n),
                        FnSrc("f", Ref("a"), body)
                            \o LetSrc("y", CallSrc("f", n))}

\* C8: a call of a user-defined function with a number of arguments other
\* than its number of parameters is rejected by translate with the
\* argument count mismatch, and no bytecode is produced.
C8_UserArityRejected ==
    (/\ tokens \in ArityPrograms
     /\ ArityArgs # 1
     /\ pc \notin {"parse", "translate"})
        => (out.st = "arg_count" /\ out.bc = <<>>)

\* C9: in the bytecode translate returns, every Jump or JumpCond at index j
\* has a target j + relative_off that is not negative and not greater than
\* the bytecode length.
C9_JumpTargetsValid ==
    out.st = "ok" =>
        \A j \in 1..Len(out.bc) :
            out.bc[j].op \in {"Jump", "JumpCond"} =>
                /\ (j - 1) + out.bc[j].relative_off >= 0
                /\ (j - 1) + out.bc[j].relative_off <= Len(out.bc)

\* C10: running the bytecode optimize produced makes the same host calls
\* with the same argument values as running the bytecode before optimize.
C10_OptimizePreservesTrace ==
    (/\ pc = "run"
     /\ status \notin {"running", "cap"}
     /\ pre_status # "cap")
        => (trace = pre_trace /\ status = pre_status)

\* the strings allocated for a stack slot: the clones Vm::clone_ref made
\* and the strings a host function returned to a Call that pushes its value
VmCells == {a \in 1..Len(heap) : heap[a].slot}

StackCells == {stack[k].val : k \in {j \in 1..Len(stack) : stack[j].ty = "String"}}

ImmediateCells ==
    {code[j].val.val :
        j \in {k \in 1..Len(code) :
                 code[k].op = "Push" /\ code[k].val.ty = "String"}}

\* C11: during a VM run no String is freed twice or read after it was
\* freed, no cell is freed while a stack slot or a Push immediate refers
\* to it, a cell the VM allocated is live exactly while one stack slot
\* holds it, and when run() returns every cell the VM allocated is freed.
C11_StringsFreedOnce ==
    Running =>
        /\ status # "ub"
        /\ \A a \in StackCells \cup ImmediateCells : ~heap[a].freed
        /\ \A j, k \in 1..Len(stack) :
              (j # k /\ stack[j].ty = "String") => stack[j] # stack[k]
        /\ \A a \in VmCells : heap[a].freed <=> a \notin StackCells
        /\ status = "done" => \A a \in VmCells : heap[a].freed

\* let s = "a" s = "b" println("{}", s) has returned: the two clones of
\* "b", the clone of "a" and the clone of "{}" were allocated and are freed
C11_Witness ==
    /\ tokens = LetSrc("s", <<TStr("a")>>) \o SetSrc("s", <<TStr("b")>>)
                    \o ShowSrc(Ref("s"))
    /\ pc = "run" /\ status = "done"
    /\ trace = <<[fn |-> "println",
                  args |-> <<RefString("{}"), RefString("b")>>]>>
    /\ Cardinality(VmCells) = 4
    /\ \A a \in VmCells : heap[a].freed

\* C12: the code emitted for a block leaves the VM stack at the depth it
\* had on block entry, so a program that runs to its end finishes with an
\* empty stack.  Stated for the programs without an if statement.
C12_ProgramEndsWithEmptyStack ==
    (Running /\ status = "done" /\ ~HasToken("If")) => stack = <<>>

RECURSIVE NodeCalls(_), ArgCalls(_, _)

\* the host calls of the expressions args[i..], left to right
ArgCalls(args, i) ==
    IF i > Len(args) THEN <<>>
    ELSE NodeCalls(args[i]) \o ArgCalls(args, i + 1)

\* the host calls of an expression in program order: those of a call's
\* arguments before the call itself, a left operand's before a right one's
NodeCalls(node) ==
    CASE node.tag = "CallFunc" -> ArgCalls(node.params, 1) \o <<node.name>>
      [] node.tag = "BinOp" -> NodeCalls(node.lhs) \o NodeCalls(node.rhs)
      [] node.tag = "UnaryOp" -> NodeCalls(node.val)
      [] OTHER -> <<>>

RECURSIVE ProgramCalls(_, _)

\* the host calls of the straight-line statements stmts[i..], in order; a
\* return ends them after the calls of its expression
ProgramCalls(stmts, i) ==
    IF i > Len(stmts) THEN <<>>
    ELSE IF stmts[i].tag = "Return"
    THEN (IF stmts[i].has_val THEN NodeCalls(stmts[i].val) ELSE <<>>)
    ELSE (CASE stmts[i].tag = "DefineVar" -> NodeCalls(stmts[i].val)
            [] stmts[i].tag = "CallFunc" ->
                  ArgCalls(stmts[i].args, 1) \o <<stmts[i].name>>
            [] OTHER -> <<>>)
         \o ProgramCalls(stmts, i + 1)

TraceNames == [k \in 1..Len(trace) |-> trace[k].fn]

StraightLine ==
    ~HasToken("If") /\ ~HasToken("While") /\ ~HasToken("Fn")

\* C13: host functions are invoked in program order: the host calls in the
\* arguments of a call left to right and before the call itself, those of
\* a statement before those of the next.  For every program made of let,
\* reassignment, call and return statements the names of the calls made so far
\* are a prefix of the program's calls in that order, and all of them have
\* been made when the run returns.
C13_HostCallsInProgramOrder ==
    (Running /\ StraightLine) =>
        /\ IsPrefix(TraceNames, ProgramCalls(parsed.node, 1))
        /\ status = "done" => TraceNames = ProgramCalls(parsed.node, 1)

\* println("{}", playerCount(), playerName()) println("z") has returned
C13_Witness ==
    /\ tokens = Show2Src(CallSrc("playerCount", 0), CallSrc("playerName", 0))
                    \o SaySrc("z")
    /\ pc = "run" /\ status = "done"
    /\ TraceNames = <<"playerCount", "playerName", "println", "println">>
    /\ trace[3].args =
           <<RefString("{}"), RefDecimal(PlayerCount), RefString(PlayerName)>>

\* the function a program of HostArityPrograms calls, and its argument count
CalledFn == fns[resolve_fn_idx(tokens[1].s) + 1]

CallArgs == Cardinality({p \in 1..Len(tokens) : tokens[p].k = "Number"})

\* bc holds exactly one Call, of the called function, with the slots
\* 0 .. CallArgs - 1 of the argument temporaries as argument indices
OneCall(bc) ==
    /\ Cardinality({j \in 1..Len(bc) : bc[j].op = "Call"}) = 1
    /\ \E j \in 1..Len(bc) :
          /\ bc[j].op = "Call"
          /\ bc[j].fn_idx = resolve_fn_idx(tokens[1].s)
          /\ bc[j].arg_indices = [k \in 1..CallArgs |-> k - 1]

\* C14: a call statement of a host function is rejected by translate
\* exactly when the function is not variadic and the argument count differs
\* from its parameter count, or it is variadic and fewer arguments than
\* parameters are given; otherwise a Call with one argument index per
\* argument is emitted.
C14_HostArityCheck ==
    (tokens \in HostArityPrograms /\ pc \notin {"parse", "translate"}) =>
        IF \/ ~CalledFn.var_len /\ CallArgs # CalledFn.params
           \/ CalledFn.var_len /\ CallArgs < CalledFn.params
        THEN out.st = "arg_count" /\ out.bc = <<>>
        ELSE out.st = "ok" /\ OneCall(out.bc) /\ OneCall(out.pre)

\* hostVar(1, 2), variadic with one declared parameter, was translated
C14_Witness ==
    /\ tokens = CallSrc("hostVar", 2)
    /\ pc = "run" /\ status = "done"
    /\ [j \in 1..Len(out.bc) |-> out.bc[j].op] =
           <<"Push", "Push", "Call", "Pop", "Pop">>
    /\ out.bc[3].fn_idx = 4 /\ out.bc[3].arg_indices = <<0, 1>>
    /\ TraceNames = <<"hostVar">>

\* the value a literal token denotes, as a host function sees it
LitValue(t) ==
    CASE t.k = "Number" -> RefDecimal(t.n)
      [] t.k = "Bool" -> [ty |-> "Bool", n |-> t.n, s |-> ""]
      [] t.k = "CharSeq" -> RefString(t.s)

\* the host call a program of LiteralPrograms is expected to make
LiteralCall ==
    IF tokens[5].s = "hostVar"
    THEN [fn |-> "hostVar", args |-> <<LitValue(tokens[4])>>]
    ELSE [fn |-> "println",
          args |-> <<RefString("{}"), LitValue(tokens[4])>>]

\* C15: for let x = <literal> followed by a host call statement with
\* argument x, the host function is invoked once and receives a value of
\* the kind and payload of the literal.
C15_LiteralReachesHost ==
    (tokens \in LiteralPrograms /\ Running) =>
        /\ status \in {"running", "done"}
        /\ IsPrefix(trace, <<LiteralCall>>)
        /\ status = "done" => trace = <<LiteralCall>>

\* let x = "a" hostVar(x) has returned after hostVar("a")
C15_Witness ==
    /\ tokens = LetSrc("x", <<TStr("a")>>)
                    \o <<TLit("hostVar"), Tok("OpenBrace"), TLit("x"),
                         Tok("CloseBrace")>>
    /\ pc = "run" /\ status = "done"
    /\ trace = <<[fn |-> "hostVar", args |-> <<RefString("a")>>]>>

\* the text is digits, one '.', digits
OneDotLiteral ==
    \E k \in 2..(Len(text) - 1) :
        /\ text[k] = "."
        /\ \A j \in (1..Len(text)) \ {k} : text[j] \in Numeric

\* the text is digits and '.', begins and ends with a digit, and holds
\* more than one '.'
ManyDotLiteral ==
    /\ Len(text) >= 2
    /\ text[1] \in Numeric /\ text[Len(text)] \in Numeric
    /\ \A j \in 1..Len(text) : text[j] \in Numeric \cup {"."}
    /\ Cardinality({j \in 1..Len(text) : text[j] = "."}) > 1

LexDone == pc = "lex" /\ lexer.st \in {"ok", "err"}

\* C16: a numeric literal made of digits with exactly one '.' between them
\* lexes to a single Number token, and a literal with more than one '.'
\* makes lex return an error.
C16_OneDotNumberLexes ==
    LexDone =>
        /\ OneDotLiteral =>
              /\ lexer.st = "ok"
              /\ Len(lexer.toks) = 1
              /\ lexer.toks[1].k = "Number"
        /\ ManyDotLiteral => lexer.st = "err"

\* the text opens a character sequence with its first character and holds
\* no second '"'
Unterminated ==
    /\ text # <<>>
    /\ text[1] = Quote
    /\ \A j \in 2..Len(text) : text[j] # Quote

\* C17: a source in which a '"' opens a character-sequence literal that is
\* never closed makes lex return an error instead of a token list.
C17_UnterminatedStringIsError ==
    (LexDone /\ Unterminated) => lexer.st = "err"

RECURSIVE ReturnsIn(_, _)
\* the statements of stmts, and of the blocks nested in them, that are a
\* return with a value (hasVal = TRUE) or without one (hasVal = FALSE)
BlockReturns(stmt, hasVal) ==
    CASE stmt.tag = "Return" -> IF stmt.has_val = hasVal THEN 1 ELSE 0
      [] stmt.tag = "Loop" -> ReturnsIn(stmt.stmts, hasVal)
      [] stmt.tag = "Conditional" ->
            IF \E k \in 1..Len(stmt.seq) : ReturnsIn(stmt.seq[k][2], hasVal) > 0
            THEN 1 ELSE ReturnsIn(stmt.fallback, hasVal)
      [] OTHER -> 0

ReturnsIn(stmts, hasVal) ==
    IF stmts = <<>> THEN 0
    ELSE BlockReturns(stmts[1], hasVal) + ReturnsIn(Tail(stmts), hasVal)

\* the program is one function definition and translate has been entered
OneFnTranslated ==
    /\ pc \in {"run_pre", "run", "end"}
    /\ parsed.st = "ok"
    /\ Len(parsed.node) = 1
    /\ parsed.node[1].tag = "DefineFn"

FnBodyOf == parsed.node[1].stmts

\* C18: a function definition is rejected as an inconsistent return exactly
\* when its body holds both a return with a value and a return without one,
\* returns nested in if and while blocks counted; a function whose every
\* return carries a value is accepted and recorded as value-returning, also
\* when other statements precede the return.
C18_InconsistentReturn ==
    OneFnTranslated =>
        /\ (out.st = "inconsistent_return") <=>
              (ReturnsIn(FnBodyOf, TRUE) > 0 /\ ReturnsIn(FnBodyOf, FALSE) > 0)
        /\ (ReturnsIn(FnBodyOf, TRUE) > 0 /\ ReturnsIn(FnBodyOf, FALSE) = 0) =>
              /\ out.st = "ok"
              /\ discover_fn_defs(parsed.node).defs[parsed.node[1].name]

\* the Compare instruction about to run and its two operands
AtCompare ==
    /\ Running /\ Dispatching /\ curr.op = "Compare"
    /\ curr.arg1_idx < Len(stack) /\ curr.arg2_idx < Len(stack)

CmpLeft == stack[curr.arg1_idx + 1]

CmpRight == stack[curr.arg2_idx + 1]

\* what Compare is to push for operands l and r of one kind
CompareHolds(l, r, expected) ==
    CASE expected = "Less" -> l.val < r.val
      [] expected = "Equal" -> l.val = r.val
      [] expected = "Greater" -> l.val > r.val
      [] expected = "NotEqual" -> l.val # r.val

\* C19: for two decimal operands Compare with expected Less, Equal, Greater
\* or NotEqual pushes true exactly when a < b, a = b, a > b or a # b; for
\* two boolean operands expected Equal pushes true exactly when they are
\* identical and NotEqual exactly when they differ.
C19_ComparePushesOrdering ==
    [][(/\ AtCompare
        /\ \/ CmpLeft.ty = "Decimal" /\ CmpRight.ty = "Decimal"
           \/ /\ CmpLeft.ty = "Bool" /\ CmpRight.ty = "Bool"
              /\ curr.expected \in {"Equal", "NotEqual"})
       => stack' = Append(stack,
                RtBool(CompareHolds(CmpLeft, CmpRight, curr.expected)))]_vars

\* statements 1..k of the program are let statements
LetPrefix(k) ==
    \A j \in 1..k :
        parsed.node[j].tag = "DefineVar" /\ ~parsed.node[j].reassign

\* the translator when it reaches statement k, and what translate_node
\* returns for the expression of statement k
Before(k) ==
    TrStmts(NewTranslator(discover_fn_defs(parsed.node).defs),
            SubSeq(parsed.node, 1, k - 1), 1, <<>>).t

NodeAt(k) == translate_node(Before(k), parsed.node[k].val, 0)

\* the unoptimized tape is running and statement k is a let whose
\* expression was translated
ExprOf(k) ==
    /\ pc = "run_pre" /\ parsed.st = "ok" /\ out.st = "ok"
    /\ k \in 1..Len(parsed.node)
    /\ LetPrefix(k)
    /\ NodeAt(k).t.st = "ok"

\* the run is inside the code of the expression of statement k
InExpr(k) ==
    /\ ExprOf(k) /\ status = "running"
    /\ Len(Before(k).code) <= ip /\ ip < Len(NodeAt(k).t.code)

\* the run has just left the code of the expression of statement k
AfterExpr(k) ==
    /\ ExprOf(k) /\ status \in {"running", "done"}
    /\ ip = Len(NodeAt(k).t.code)

Rendered(ty, n, str) == [ty |-> ty, n |-> n, s |-> str]

Unrendered(v) == [ty |-> v.ty, val |-> v.n]

\* what the operator instruction of a binary operation pushes for the
\* operand values l and r
OpValue(ins, l, r) ==
    LET pair == <<Unrendered(l), Unrendered(r)>>
        a1 == pair[ins.arg1_idx + 1]
        a2 == pair[ins.arg2_idx + 1]
        v == CASE ins.op \in {"And", "Or"} ->
                    RtBool(IF ins.op = "And" THEN a1.val = 1 /\ a2.val = 1
                           ELSE a1.val = 1 \/ a2.val = 1)
               [] ins.op = "Compare" ->
                    RtBool(ins.expected = CmpOrdering(a1, a2))
               [] OTHER -> RtDecimal(ArithResult(ins.op, a1.val, a2.val).n)
    IN  Rendered(v.ty, v.val, "")

\* what a host function returns to an expression
CallReturn(name) ==
    CASE name = "playerCount" -> Rendered("Decimal", PlayerCount, "")
      [] name = "playerName" -> Rendered("String", 0, PlayerName)
      [] name = "nextPlayer" -> Rendered("Player", ctx.curr_player, "")
      [] OTHER -> Rendered("None", 0, "")

RECURSIVE NodeValue(_, _)
\* the value of an expression whose variables are bound as in T
NodeValue(T, node) ==
    CASE node.tag = "Val" ->
            IF node.val.ty = "String"
            THEN Rendered("String", 0, tokens[node.val.val].s)
            ELSE Rendered(node.val.ty, node.val.val, "")
      [] node.tag = "Var" ->
            Render(heap, stack[T.vars[node.name][Len(T.vars[node.name])] + 1])
      [] node.tag = "BinOp" ->
            OpValue(BinOpIns(node.op, 0, 1), NodeValue(T, node.lhs),
                    NodeValue(T, node.rhs))
      [] node.tag = "CallFunc" -> CallReturn(node.name)

\* the number of statements of the parsed program
StmtCount == IF parsed.st = "ok" THEN Len(parsed.node) ELSE 0

IsBareVar(k) == parsed.node[k].val.tag = "Var"

\* C20: after the code emitted by translate_node for an expression has run
\* from stack depth d, the depth is d + 1 for a literal, a binary operation
\* or a call and d for a bare variable, no instruction of that code changes
\* a slot below d, and the expression's result is at the index that
\* translate_node returned.
C20_ExpressionStackEffect ==
    /\ [](\A k \in 1..StmtCount :
            AfterExpr(k) =>
                /\ Len(stack) = Before(k).stack_idx
                                    + (IF IsBareVar(k) THEN 0 ELSE 1)
                /\ NodeAt(k).idx < Len(stack)
                /\ Render(heap, stack[NodeAt(k).idx + 1])
                        = NodeValue(Before(k), parsed.node[k].val))
    /\ [][\A k \in 1..StmtCount :
            InExpr(k) =>
                /\ Len(stack') >= Before(k).stack_idx
                /\ \A j \in 1..Before(k).stack_idx : stack'[j] = stack[j]]_vars

\* i + 1 ran from depth 2: its code pushed the 1 above i and b, added, and
\* removed the 1 from under the sum, which is in slot 2
C20_Witness ==
    /\ StmtCount >= 3
    /\ AfterExpr(3)
    /\ parsed.node[3].val.tag = "BinOp"
    /\ parsed.node[3].val.lhs.tag = "Var"
    /\ parsed.node[3].val.rhs.tag = "Val"
    /\ Len(NodeAt(3).t.code) = Len(Before(3).code) + 3
    /\ Before(3).stack_idx = 2
    /\ NodeAt(3).idx = 2
    /\ stack = <<RtDecimal(0), RtBool(TRUE), RtDecimal(1)>>

\* statement k of the program follows a prefix of let statements, has the
\* given tag, and was translated
StmtOf(k, tag) ==
    /\ pc = "run_pre" /\ parsed.st = "ok" /\ out.st = "ok"
    /\ k \in 1..Len(parsed.node)
    /\ LetPrefix(k - 1)
    /\ parsed.node[k].tag = tag
    /\ Before(k + 1).st = "ok"

\* the run has just left the code of statement k
AfterStmt(k) ==
    /\ status \in {"running", "done"}
    /\ ip = Len(Before(k + 1).code)

\* C21: after a while statement completes, for zero or more iterations and
\* for any form of condition, a bare boolean variable included, the VM stack
\* depth and the translator's stack_idx both equal the values they had
\* before the statement.
C21_WhileRestoresDepth ==
    \A k \in 1..StmtCount :
        StmtOf(k, "Loop") =>
            /\ Before(k + 1).stack_idx = Before(k).stack_idx
            /\ AfterStmt(k) => Len(stack) = Before(k).stack_idx

RECURSIVE AssignedIn(_)
\* the names that the statements of stmts, nested blocks included, reassign
AssignedOf(stmt) ==
    CASE stmt.tag = "DefineVar" -> IF stmt.reassign THEN {stmt.name} ELSE {}
      [] stmt.tag = "Loop" -> AssignedIn(stmt.stmts)
      [] stmt.tag = "Conditional" ->
            UNION {AssignedIn(stmt.seq[j][2]) : j \in 1..Len(stmt.seq)}
                \cup AssignedIn(stmt.fallback)
      [] OTHER -> {}

AssignedIn(stmts) ==
    IF stmts = <<>> THEN {}
    ELSE AssignedOf(stmts[1]) \cup AssignedIn(Tail(stmts))

\* statement j is let <name> = <literal>, and statement k does not assign
\* to that name
LiteralLet(j, k) ==
    /\ parsed.node[j].val.tag = "Val"
    /\ parsed.node[j].name \notin AssignedOf(parsed.node[k])

\* C22: after an if / else-if / else statement completes, whichever branch
\* was taken, the VM stack depth equals its depth before the statement and
\* every variable declared before it still occupies its slot with its value.
C22_IfKeepsFrame ==
    \A k \in 1..StmtCount :
        (StmtOf(k, "Conditional") /\ AfterStmt(k)) =>
            /\ Len(stack) = Before(k).stack_idx
            /\ \A j \in 1..(k - 1) :
                  LiteralLet(j, k) =>
                      /\ NodeAt(j).idx < Len(stack)
                      /\ Render(heap, stack[NodeAt(j).idx + 1])
                            = NodeValue(Before(j), parsed.node[j].val)

\* the index after the removal of the pair at (i - 1, i) of the instruction
\* that was at index p, or of the one that followed the pair when p was in it
MovedTo(p, i) == IF p < i - 1 THEN p ELSE IF p <= i THEN i - 1 ELSE p - 2

\* the jumps of the tape bc whose target is an index of bc or its end
JumpsOf(bc) ==
    {j \in 0..(Len(bc) - 1) :
        /\ bc[j + 1].op \in {"Jump", "JumpCond"}
        /\ j + bc[j + 1].relative_off \in 0..Len(bc)}

\* C23: each removal of a Push / Pop-offset-0 pair by optimize keeps every
\* Jump and JumpCond pointing at the same instruction as before the removal
\* or, when its target was one of the two removed instructions, at the
\* instruction that followed the pair.
C23_RemovalKeepsJumpTargets ==
    [][(pc = "opt" /\ out'.bc # out.bc) =>
        \A j \in JumpsOf(out.bc) :
            LET i == FirstPushPop(out.bc)
                moved == out'.bc[MovedTo(j, i) + 1]
            IN  /\ moved.op = out.bc[j + 1].op
                /\ MovedTo(j, i) + moved.relative_off
                      = MovedTo(j + out.bc[j + 1].relative_off, i)]_vars

\* a backward jump whose target was the removed Pop points, after the
\* removal, at the instruction that followed the pair
C23_Witness ==
    /\ pc = "opt" /\ out.st = "ok"
    /\ out.pre = <<Push(RtDecimal(1)), Pop(0), Pop(1), Jump(-2)>>
    /\ out.bc = <<Pop(1), Jump(-1)>>

\* C24: optimize terminates on every instruction sequence and returns a
\* sequence in which no Push is immediately followed by a Pop with offset 0.
C24_OptimizeReachesFixpoint ==
    /\ <>(pc = "opt" => out.st = "ok")
    /\ []((pc = "opt" /\ out.st = "ok") =>
            \A p \in 1..(Len(out.bc) - 1) :
                ~(/\ out.bc[p].op = "Push"
                  /\ out.bc[p + 1].op = "Pop"
                  /\ out.bc[p + 1].offset = 0))

\* optimize returned after two rounds: the removal of the inner pair made
\* the outer Push and Pop adjacent
C24_Witness ==
    /\ pc = "opt" /\ out.st = "ok"
    /\ out.pre = <<Push(RtDecimal(1)), Push(RtDecimal(1)), Pop(0), Pop(0)>>
    /\ out.bc = <<>>

\* the unit of the whole program and the table of its functions' offsets
\* in the code that translate returned
ProgramUnit == translate_unit(parsed.node, discover_fn_defs(parsed.node).defs)

FnOffsets == AppendFns(ProgramUnit.main, ProgramUnit.fns, 1, <<>>).fn_stack

\* translate returned code for a program that defines exactly one function
OneFnLinked ==
    /\ pc \in {"run_pre", "run"}
    /\ parsed.st = "ok" /\ out.st = "ok"
    /\ Len(FnOffsets) = 1

\* C25: in the bytecode returned by translate every CallLocal at index j has
\* a relative_off such that j + relative_off is the index of the first
\* instruction of the called function's body as appended after the
\* top-level code.
C25_CallLocalTargetsBody ==
    OneFnLinked =>
        \A j \in 0..(Len(out.bc) - 1) :
            out.bc[j + 1].op = "CallLocal" =>
                j + out.bc[j + 1].relative_off = FnOffsets[1].offset

\* the statements whose code the run is in: the body of the function when
\* the program is one function definition, else the program
Unit ==
    IF StmtCount = 0 THEN <<>>
    ELSE IF StmtCount = 1 /\ parsed.node[1].tag = "DefineFn"
    THEN parsed.node[1].stmts ELSE parsed.node

\* the translator of that unit when it reaches its statement k
UnitBefore(k) ==
    TrStmts(NewTranslator(discover_fn_defs(parsed.node).defs),
            SubSeq(Unit, 1, k - 1), 1, <<>>).t

\* statement k of the unit is return <expression> after let statements only,
\* and the run is about to execute its Return instruction
AtReturn(k) ==
    /\ Running /\ parsed.st = "ok" /\ out.st = "ok"
    /\ k \in 1..Len(Unit)
    /\ \A j \in 1..(k - 1) : Unit[j].tag = "DefineVar" /\ ~Unit[j].reassign
    /\ Unit[k].tag = "Return" /\ Unit[k].has_val
    /\ Dispatching /\ curr.op = "Return" /\ curr.has_val

\* C26: whenever a Return has_val=true instruction is reached, the value of
\* the return expression is the top element of the stack, also when the
\* expression is a bare variable whose slot is not the most recently pushed.
C26_ReturnValueOnTop ==
    \A k \in 1..Len(Unit) :
        AtReturn(k) =>
            /\ stack # <<>>
            /\ Render(heap, stack[Len(stack)])
                  = NodeValue(UnitBefore(k), Unit[k].val)

\* the let statement before statement k that declares name, 0 if none
DefOf(name, k) ==
    IF \E j \in 1..(k - 1) : parsed.node[j].name = name
    THEN CHOOSE j \in 1..(k - 1) :
            /\ parsed.node[j].name = name
            /\ \A m \in (j + 1)..(k - 1) : parsed.node[m].name # name
    ELSE 0

RECURSIVE LetValue(_, _)
\* the value of an expression of statement k after a prefix of lets, each
\* variable read as the value of the expression it was declared with
LetValue(node, k) ==
    CASE node.tag = "Val" ->
            IF node.val.ty = "String"
            THEN Rendered("String", 0, tokens[node.val.val].s)
            ELSE Rendered(node.val.ty, node.val.val, "")
      [] node.tag = "Var" ->
            LetValue(parsed.node[DefOf(node.name, k)].val,
                     DefOf(node.name, k))
      [] node.tag = "BinOp" ->
            OpValue(BinOpIns(node.op, 0, 1), LetValue(node.lhs, k),
                    LetValue(node.rhs, k))
      [] node.tag = "CallFunc" -> CallReturn(node.name)

\* the slot that the translator has bound name to at statement k
SlotOf(name, k) == Before(k).vars[name][Len(Before(k).vars[name])]

\* statement k is a reassignment after a prefix of lets and has just run
AfterReassign(k) ==
    /\ StmtOf(k, "DefineVar") /\ parsed.node[k].reassign
    /\ AfterStmt(k)

LetCopy(k) ==
    /\ pc = "run_pre" /\ parsed.st = "ok" /\ out.st = "ok"
    /\ k \in 1..StmtCount
    /\ LetPrefix(k)
    /\ parsed.node[k].val.tag = "Var"
    /\ Before(k + 1).st = "ok"

\* statement k + 1 reassigns name and has just run
Reassigned(k, name) ==
    /\ k + 1 <= StmtCount
    /\ parsed.node[k + 1].tag = "DefineVar"
    /\ parsed.node[k + 1].reassign
    /\ parsed.node[k + 1].name = name
    /\ Before(k + 2).st = "ok"
    /\ status \in {"running", "done"}
    /\ ip = Len(Before(k + 2).code)

\* the value that the run reads from name after statement k
ReadOf(name, k) == Render(heap, stack[SlotOf(name, k + 1) + 1])

\* C28: after let y = x, x and y are independent variables bound to
\* different stack slots: a later reassignment of y does not change the
\* value read from x, and a later reassignment of x does not change the
\* value read from y.
C28_LetCopyIsIndependent ==
    \A k \in 1..StmtCount :
        LetCopy(k) =>
            LET y == parsed.node[k].name
                x == parsed.node[k].val.name
            IN  /\ SlotOf(y, k + 1) # SlotOf(x, k + 1)
                /\ Reassigned(k, y) =>
                      ReadOf(x, k) = LetValue(parsed.node[k].val, k)
                /\ Reassigned(k, x) =>
                      ReadOf(y, k) = LetValue(parsed.node[k].val, k)

\* statement k is a while or an if after a prefix of lets; its block
BlockOf(k) ==
    IF parsed.node[k].tag = "Loop" THEN parsed.node[k].stmts
    ELSE parsed.node[k].seq[1][2]

HasBlock(k) ==
    /\ pc = "run_pre" /\ parsed.st = "ok" /\ out.st = "ok"
    /\ k \in 1..StmtCount
    /\ LetPrefix(k - 1)
    /\ \/ parsed.node[k].tag = "Loop"
       \/ parsed.node[k].tag = "Conditional" /\ Len(parsed.node[k].seq) = 1
    /\ Before(k + 1).st = "ok"

\* the translator that translate_internal receives for the block
CondOf(k) == translate_node(Before(k), parsed.node[k].seq[1][1], 0)

BlockEntry(k) ==
    IF parsed.node[k].tag = "Loop" THEN Before(k)
    ELSE SubStack(EmitN(CondOf(k).t, Pop(1), CondOf(k).pops), CondOf(k).pops)

\* the translator after statements 1..j of the block
Inside(k, j) == TrStmts(BlockEntry(k), SubSeq(BlockOf(k), 1, j), 1, <<>>).t

\* how far the instructions of the block moved when the loop's entry Jump and
\* Pops, or the if's JumpCond, were inserted before them
Shift(k) ==
    IF parsed.node[k].tag = "Loop"
    THEN 1 + translate_node(translate_internal(Before(k), BlockOf(k)),
                            parsed.node[k].condition, 0).pops
    ELSE 1

\* statement j of the block of statement k declares a name of the prelude
Shadows(k, j) ==
    /\ HasBlock(k)
    /\ j \in 1..Len(BlockOf(k))
    /\ BlockOf(k)[j].tag = "DefineVar" /\ ~BlockOf(k)[j].reassign
    /\ HasVar(Before(k), BlockOf(k)[j].name)

TopSlot(T, name) == T.vars[name][Len(T.vars[name])]

BlockLen(k) == IF HasBlock(k) THEN Len(BlockOf(k)) ELSE 0

\* the run is in the block, between the declaration and the end of the block
AfterDeclaration(k, j) ==
    /\ Dispatching
    /\ ip >= Len(Inside(k, j - 1).code) + Shift(k)
    /\ ip < Len(translate_internal(BlockEntry(k), BlockOf(k)).code) + Shift(k)

\* C29: when a block declares a variable with the name of a variable of an
\* enclosing scope, references inside the block after the declaration
\* resolve to the inner slot, and references after the block ends resolve
\* again to the outer slot, whose value the inner declaration did not change.
C29_ShadowingRestoresOuter ==
    /\ [](\A k \in 1..StmtCount : \A j \in 1..BlockLen(k) :
            Shadows(k, j) =>
                LET name == BlockOf(k)[j].name
                IN  /\ TopSlot(Inside(k, j), name) = Inside(k, j - 1).stack_idx
                    /\ TopSlot(Inside(k, j), name) # SlotOf(name, k)
                    /\ \A m \in j..Len(BlockOf(k)) :
                          TopSlot(Inside(k, m), name)
                              = TopSlot(Inside(k, j), name)
                    /\ SlotOf(name, k + 1) = SlotOf(name, k))
    /\ [][\A k \in 1..StmtCount : \A j \in 1..BlockLen(k) :
            (Shadows(k, j) /\ AfterDeclaration(k, j)) =>
                LET slot == SlotOf(BlockOf(k)[j].name, k)
                IN  /\ Len(stack') > slot
                    /\ stack'[slot + 1] = stack[slot + 1]]_vars

\* inside while b { let i = 5 .. }: the inner i is 5 in slot 2, the outer 0
C29_Witness ==
    /\ Shadows(3, 1)
    /\ parsed.node[3].tag = "Loop"
    /\ AfterDeclaration(3, 1)
    /\ ip > Len(Inside(3, 1).code) + Shift(3)
    /\ TopSlot(Inside(3, 1), "i") = 2
    /\ SlotOf("i", 4) = 0
    /\ stack = <<RtDecimal(0), RtBool(TRUE), RtDecimal(5)>>

\* statement k is let r = l >= r or let r = l <= r on two decimal values
OrderOf(k) ==
    /\ ExprOf(k)
    /\ parsed.node[k].val.tag = "BinOp"
    /\ parsed.node[k].val.op \in {"Ge", "Le"}
    /\ LetValue(parsed.node[k].val.lhs, k).ty = "Decimal"
    /\ LetValue(parsed.node[k].val.rhs, k).ty = "Decimal"

OrderLeft(k) == LetValue(parsed.node[k].val.lhs, k).n

OrderRight(k) == LetValue(parsed.node[k].val.rhs, k).n

\* C30: for decimal operands, a >= b evaluates to true exactly when a is
\* greater than or equal to b and a <= b exactly when a is less than or
\* equal to b; both are true when a equals b.
C30_OrEqualComparisons ==
    \A k \in 1..StmtCount :
        (OrderOf(k) /\ AfterExpr(k)) =>
            /\ stack # <<>>
            /\ stack[Len(stack)] =
                  RtBool(IF parsed.node[k].val.op = "Ge"
                         THEN OrderLeft(k) >= OrderRight(k)
                         ELSE OrderLeft(k) <= OrderRight(k))

\* C31: a parenthesised sub-expression is a single operand of the enclosing
\* binary operator regardless of priorities: (a op1 b) op2 c parses as
\* BinOp(BinOp(a, op1, b), op2, c) and a op1 (b op2 c) as
\* BinOp(a, op1, BinOp(b, op2, c)).
C31_ParenthesesGroup ==
    /\ (tokens \in ParenLeftPrograms /\ pc # "parse") =>
            /\ parsed.st = "ok"
            /\ ParsedValue =
                   NBinOp(NBinOp(Atom(tokens[5], 5), Atom(tokens[7], 7),
                                 tokens[6].k),
                          Atom(tokens[10], 10), tokens[9].k)
    /\ (tokens \in ParenRightPrograms /\ pc # "parse") =>
            /\ parsed.st = "ok"
            /\ ParsedValue =
                   NBinOp(Atom(tokens[4], 4),
                          NBinOp(Atom(tokens[7], 7), Atom(tokens[9], 9),
                                 tokens[8].k),
                          tokens[5].k)

\* the tree of hostVar(1)
CallNode == NCallFunc("hostVar", <<NVal(RtDecimal(1))>>)

\* C32: a function call is accepted wherever an expression is allowed: as
\* the left operand of a binary operator, as the right operand, and as the
\* right-hand side of a reassignment; in each case the parsed tree contains
\* the CallFunc node with its arguments and all tokens are consumed.
C32_CallIsAnExpression ==
    (tokens \in CallPositionPrograms /\ pc # "parse") =>
        /\ parsed.st = "ok"
        /\ parsed.idx = Len(tokens)
        /\ tokens = SrcCallLeft =>
              parsed.node[1].val = NBinOp(CallNode, NVal(RtDecimal(2)), "Add")
        /\ tokens = SrcCallRight =>
              parsed.node[1].val = NBinOp(NVal(RtDecimal(2)), CallNode, "Add")
        /\ tokens = SrcCallSet =>
              parsed.node[2] = SDefineVar("x", CallNode, TRUE)

\* the host function called in expression position by a program of
\* HostArityLetPrograms or HostArityArgPrograms
ExprCalledFn ==
    IF tokens \in HostArityLetPrograms
    THEN fns[resolve_fn_idx(tokens[4].s) + 1]
    ELSE fns[resolve_fn_idx(tokens[3].s) + 1]

\* C33: a host function call in expression position (let x = f(1, 2), or a
\* call nested as an argument) with a wrong number of arguments for a
\* non-variadic host function is rejected at compile time, exactly as the
\* same call is rejected in statement position.
C33_ExpressionCallArity ==
    (/\ tokens \in HostArityLetPrograms \cup HostArityArgPrograms
     /\ pc \notin {"parse", "translate"}
     /\ ~ExprCalledFn.var_len
     /\ CallArgs # ExprCalledFn.params)
        => out.st = "arg_count"

\* the program was accepted by translate and has no while and no fn
LoopFree == out.st = "ok" /\ ~HasToken("While") /\ ~HasToken("Fn")

\* the run ended: Vm::run returned, or it stopped at a panic, at an
\* instruction without an arm, at undefined behaviour or at a division whose
\* quotient the model's integers cannot hold
Stopped == status \in {"done", "panic", "noarm", "ub", "nonint"}

\* C34: for every program accepted by translate that contains no while loop
\* and no function definition, and whose host functions return, Vm::run
\* terminates (reaches an instruction pointer past the end of the bytecode)
\* after finitely many steps, also for if statements with an empty body or
\* a bare-variable condition: a run that does not stop at a failure reaches
\* the end, and no instruction leaves the instruction pointer, the stack, the
\* strings and the game context as they were (the VM is deterministic, so
\* such an instruction is repeated for ever).
C34_LoopFreeRunTerminates ==
    /\ (pc = "run_pre" /\ LoopFree) ~> (pc = "run_pre" /\ Stopped)
    /\ (pc = "run" /\ LoopFree) ~> (pc = "run" /\ Stopped)
    /\ [][(/\ pc \in {"run_pre", "run"} /\ LoopFree
           /\ status = "running" /\ status' = "running"
           /\ steps' = steps + 1)
            => <<ip, stack, heap, ctx>>' # <<ip, stack, heap, ctx>>]_vars

\* C35: for every token sequence, parse returns either Ok(statements) or
\* Err(parse error) and never panics: this includes input that ends inside an
\* unclosed block, input that ends right after let, fn, return or =, a let
\* or fn not followed by an identifier, and expressions that combine two
\* parenthesised binary operands.
C35_ParseNeverPanics ==
    pc # "parse" => parsed.st \in {"ok", "err"}

\* the one-character operators that a second character can complete, and
\* the tokens of the one-character and the two-character form
OneCharOps == {"!", "/", "=", "<", ">"}

OneCharToken(c) ==
    CASE c = "!" -> "Exclam" [] c = "/" -> "Div" [] c = "=" -> "Assign"
      [] c = "<" -> "Lt" [] c = ">" -> "Gt"

TwoCharToken(c) ==
    CASE c = "!" -> "Ne" [] c = "=" -> "Eq" [] c = "<" -> "Le"
      [] c = ">" -> "Ge"

\* the character after the current one completes a two-character operator
Completes ==
    /\ lexer.idx < Len(text)
    /\ chr \in {"!", "=", "<", ">"}
    /\ text[lexer.idx + 1] = "="

StartsComment ==
    lexer.idx < Len(text) /\ chr = "/" /\ text[lexer.idx + 1] = "/"

\* C36: when a one-character operator (!, /, =, <, >) is immediately followed
\* by a character that does not complete a two-character operator, that
\* character is not lost: it is lexed as the start of the next token, so a<x
\* yields Lit(a), Lt, Lit(x) and x=1 yields Lit(x), Assign, Number(1); and
\* when it does complete one (!=, ==, <=, >=) exactly one two-character
\* token is produced.
C36_LookaheadKeepsCharacter ==
    /\ [][(Lexing /\ chr \in OneCharOps /\ ~StartsComment) =>
            IF Completes
            THEN /\ lexer'.toks =
                        Append(lexer.toks, LTok(TwoCharToken(chr), <<>>, 0))
                 /\ lexer'.some <=> lexer.idx + 2 <= Len(text)
                 /\ lexer'.some => lexer'.idx = lexer.idx + 2
            ELSE /\ lexer'.toks =
                        Append(lexer.toks, LTok(OneCharToken(chr), <<>>, 0))
                 /\ lexer'.some <=> lexer.idx < Len(text)
                 /\ lexer'.some => lexer'.idx = lexer.idx + 1]_vars
    /\ []((LexDone /\ text = <<"a", "<", "x">>) =>
            /\ lexer.st = "ok"
            /\ lexer.toks = <<LTok("Lit", <<"a">>, 0), LTok("Lt", <<>>, 0),
                              LTok("Lit", <<"x">>, 0)>>)
    /\ []((LexDone /\ text = <<"x", "=", "1">>) =>
            /\ lexer.st = "ok"
            /\ lexer.toks = <<LTok("Lit", <<"x">>, 0),
                              LTok("Assign", <<>>, 0),
                              LTok("Number", <<>>, 1)>>)

\* a<x was lexed to Lit(a), Lt, Lit(x)
C36_Witness ==
    /\ pc = "lex" /\ lexer.st = "ok"
    /\ text = <<"a", "<", "x">>
    /\ lexer.toks = <<LTok("Lit", <<"a">>, 0), LTok("Lt", <<>>, 0),
                      LTok("Lit", <<"x">>, 0)>>

\* the println calls made so far
MetaShown == SelectSeq(trace, LAMBDA c : c.fn = "println")

\* the reads of the program: its loadMeta calls
ReadCount ==
    Cardinality({k \in 1..Len(tokens) : tokens[k] = TLit("loadMeta")})

\* C37: a string stored with storeMeta is read back by every loadMeta as a
\* value whose storage is live, also after the temporaries of the storeMeta
\* call were popped: no run reads or frees freed storage, no String on the
\* stack is freed, and every read prints the stored string.
C37_StoredStringStaysReadable ==
    (tokens \in MetaPrograms /\ pc \in {"run_pre", "run"}) =>
        /\ status # "ub"
        /\ \A i \in 1..Len(stack) :
                stack[i].ty = "String" => ~heap[stack[i].val].freed
        /\ \A i \in 1..Len(MetaShown) :
                MetaShown[i].args[2] = Rendered("String", 0, "v")
        /\ status = "done" => Len(MetaShown) = ReadCount

\* thread t returned from a call of op
Returned(t, op) == once.th[t].pc = "idle" /\ once.th[t].op = op

\* C38: under every interleaving of calls on one ConcurrentOnceCell at most
\* one value is installed and it is never replaced; a try_init that returned
\* either installed its value or returned Err with its own value while
\* another call had installed one; every get that returned a value and every
\* get_or_init that returned gave the installed value.
C38_OneInstallation ==
    /\ [](pc = "cell" =>
            /\ once.installs <= 1
            /\ (once.installs = 1) = (once.ptr # NullPtr)
            /\ \A t \in 1..CellThreads :
                /\ once.th[t].res # "ub"
                /\ Returned(t, "try_init") =>
                      /\ once.installs = 1
                      /\ \/ once.th[t].res = "Ok" /\ once.first = once.th[t].val
                         \/ /\ once.th[t].res = "Err"
                            /\ once.th[t].out = once.th[t].val
                            /\ once.first # once.th[t].val
                /\ Returned(t, "get") /\ once.th[t].res = "Some" =>
                      once.installs = 1 /\ once.th[t].out = once.first
                /\ Returned(t, "get_or_init") =>
                      /\ once.th[t].res = "Some"
                      /\ once.installs = 1
                      /\ once.th[t].out = once.first)
    /\ [][once.ptr # NullPtr =>
            /\ once'.ptr = once.ptr
            /\ get(once') = get(once)]_vars

\* two threads raced to initialise: one try_init lost and returned Err with
\* its own value, the other thread's value was installed and that thread
\* read it back with get
C38_Witness ==
    /\ pc = "cell"
    /\ \E t \in 1..CellThreads, u \in 1..CellThreads :
        /\ t # u
        /\ Returned(t, "try_init")
        /\ once.th[t].res = "Err"
        /\ once.th[t].out = <<t, 0>>
        /\ Returned(u, "get")
        /\ once.th[u].res = "Some"
        /\ once.th[u].out = <<u, 0>>
        /\ once.first = <<u, 0>>

====
